---------------------------- MODULE Spec2Model ----------------------------
(* tsplice: the transcript-selection session (model.Update in main.go), the *)
(* commands it dispatches and the timestamp helpers in the utilities file.  *)
(* A Go string is a sequence of one-character strings; a path, a status    *)
(* line and an error text are sequences of string pieces, so that          *)
(* concatenation is \o everywhere.                                         *)
EXTENDS Integers, Sequences, FiniteSets, Bags, TLC

VARIABLES
    running,          \* the event loop still delivers messages to Update
    quitPending,      \* tea.Quit was returned, its QuitMsg is not delivered yet
    inputFile,        \* model.inputFile
    sidecar,          \* the .vtt file exists on disk
    sidecarOf,        \* the media file whose transcription wrote that .vtt file
    transcript,       \* the segments the sidecar / the transcription response parses to
    loading,          \* model.loading
    loadingMsg,       \* model.loadingMsg
    quitting,         \* model.quitting
    errorMsg,         \* model.errorMsg
    transcriptItems,  \* model.transcriptItems
    statuses,         \* model.statuses
    items,            \* model.list.Items()
    index,            \* model.list.Index(), 0-based as in Go
    tickPending,      \* a spinner.TickMsg is on its way
    extracting,       \* extractAudioCmd is running
    transcribing,     \* transcribeAudioCmd is running
    compiles,         \* compileVideoCmd invocations that have not reported back
    previews,         \* bag of the mpv processes started by `go previewVideo`
    msg,              \* the message Update handled in the last step (none: the
                      \* step was the runtime's or an external process's)
    ts, secs, res,    \* argument and result of the helper under test
    proc              \* main() before and around the session: its position, the
                      \* command line, OPENAI_API_KEY, the exit code

vars == <<running, quitPending, inputFile, sidecar, sidecarOf, transcript, loading,
          loadingMsg, quitting, errorMsg, transcriptItems, statuses, items,
          index, tickPending, extracting, transcribing,
          compiles, previews, msg, ts, secs, res, proc>>

modelVars == <<loading, loadingMsg, quitting, errorMsg, transcriptItems,
               statuses, items, index>>

-----------------------------------------------------------------------------
(* Bounds *)

MaxSegments == 2
MaxPreviews == 2
MaxStatuses == 3
MaxAdd == 61

-----------------------------------------------------------------------------
(* Strings *)

Digits == <<"0", "1", "2", "3", "4", "5", "6", "7", "8", "9">>

IsDigit(c) == \E d \in 1..10 : Digits[d] = c

DigitVal(c) == (CHOOSE d \in 1..10 : Digits[d] = c) - 1

RECURSIVE Itoa(_)
Itoa(n) == IF n < 10 THEN <<Digits[n + 1]>>
           ELSE Itoa(n \div 10) \o <<Digits[(n % 10) + 1]>>

RECURSIVE ZeroPad(_, _)
ZeroPad(s, w) == IF Len(s) >= w THEN s ELSE ZeroPad(<<"0">> \o s, w)

(* fmt.Sprintf("%02d", n) *)
Fmt02d(n) == IF n < 0 THEN <<"-">> \o ZeroPad(Itoa(-n), 1)
             ELSE ZeroPad(Itoa(n), 2)

(* strings.Index: first 1-based position of sep in s, 0 when absent *)
IndexOf(s, sep) ==
    LET hits == {i \in 1..(Len(s) - Len(sep) + 1) :
                    SubSeq(s, i, i + Len(sep) - 1) = sep}
    IN IF hits = {} THEN 0 ELSE CHOOSE i \in hits : \A j \in hits : i <= j

(* strings.Split(s, sep) for a non-empty sep *)
RECURSIVE Split(_, _)
Split(s, sep) ==
    LET i == IndexOf(s, sep)
    IN IF i = 0 THEN <<s>>
       ELSE <<SubSeq(s, 1, i - 1)>> \o Split(SubSeq(s, i + Len(sep), Len(s)), sep)

(* the longest prefix of s made of digits *)
RECURSIVE DigitRun(_)
DigitRun(s) == IF s # <<>> /\ IsDigit(Head(s)) THEN <<Head(s)>> \o DigitRun(Tail(s))
               ELSE <<>>

RECURSIVE Atoi(_)
Atoi(s) == IF s = <<>> THEN 0
           ELSE 10 * Atoi(SubSeq(s, 1, Len(s) - 1)) + DigitVal(s[Len(s)])

(* one %d of fmt.Sscanf: an optional sign and a run of digits;             *)
(* [ok, val, rest]                                                          *)
ScanInt(s) ==
    LET signed == s # <<>> /\ Head(s) \in {"+", "-"}
        body == IF signed THEN Tail(s) ELSE s
        run == DigitRun(body)
    IN IF run = <<>> THEN [ok |-> FALSE, val |-> 0, rest |-> s]
       ELSE [ok |-> TRUE,
             val |-> IF signed /\ Head(s) = "-" THEN -Atoi(run) ELSE Atoi(run),
             rest |-> SubSeq(body, Len(run) + 1, Len(body))]

Sep == <<" ", "-", " ">>

(* a timecode HH:MM:SS.mmm as the VTT regexp captures it *)
Timecode(h, m, s, ms) ==
    ZeroPad(Itoa(h), 2) \o <<":">> \o ZeroPad(Itoa(m), 2) \o <<":">>
        \o ZeroPad(Itoa(s), 2) \o <<".">> \o ZeroPad(Itoa(ms), 3)

-----------------------------------------------------------------------------
(* Timestamp helpers *)

(* addSecondsToTimestamp without the clamp at 59 *)
addSecondsNoClamp(timestamp, seconds) ==
    LET parts == Split(timestamp, <<":">>)
    IN IF Len(parts) # 3 THEN timestamp
       ELSE LET secParts == Split(parts[3], <<".">>)
            IN IF Len(secParts) # 2 THEN timestamp
               ELSE LET scan == ScanInt(secParts[1])
                        currentSec == IF scan.ok THEN scan.val ELSE 0
                        newSec == currentSec + seconds
                    IN parts[1] \o <<":">> \o parts[2] \o <<":">>
                         \o Fmt02d(newSec) \o <<".">> \o secParts[2]

addSecondsToTimestamp(timestamp, seconds) ==
    LET parts == Split(timestamp, <<":">>)
    IN IF Len(parts) # 3 THEN timestamp
       ELSE LET secParts == Split(parts[3], <<".">>)
            IN IF Len(secParts) # 2 THEN timestamp
               ELSE LET scan == ScanInt(secParts[1])
                        currentSec == IF scan.ok THEN scan.val ELSE 0
                        sum == currentSec + seconds
                        newSec == IF sum >= 60 THEN 59 ELSE sum
                    IN parts[1] \o <<":">> \o parts[2] \o <<":">>
                         \o Fmt02d(newSec) \o <<".">> \o secParts[2]

(* getEndTime that never looks at the next item *)
getEndTimeIgnoresNext(its, currentIndex) ==
    addSecondsToTimestamp(Split(its[currentIndex + 1].timestamp, Sep)[1], 10)

getEndTime(its, currentIndex) ==
    IF currentIndex + 1 < Len(its)
    THEN Split(its[currentIndex + 2].timestamp, Sep)[1]
    ELSE addSecondsToTimestamp(Split(its[currentIndex + 1].timestamp, Sep)[1], 10)


(* the float a %f of fmt.Sscanf reads, in thousandths: an optional sign,   *)
(* digits, and an optional fraction; [ok, val, rest]                       *)
ScanFloat(s) ==
    LET signed == s # <<>> /\ Head(s) \in {"+", "-"}
        body == IF signed THEN Tail(s) ELSE s
        whole == DigitRun(body)
        afterWhole == SubSeq(body, Len(whole) + 1, Len(body))
        hasDot == afterWhole # <<>> /\ Head(afterWhole) = "."
        frac == IF hasDot THEN DigitRun(Tail(afterWhole)) ELSE <<>>
        rest == IF hasDot THEN SubSeq(afterWhole, Len(frac) + 2, Len(afterWhole))
                ELSE afterWhole
        frac3 == SubSeq(frac \o <<"0", "0", "0">>, 1, 3)
        mag == 1000 * Atoi(whole) + Atoi(frac3)
    IN IF whole = <<>> /\ frac = <<>> THEN [ok |-> FALSE, val |-> 0, rest |-> s]
       ELSE [ok |-> TRUE,
             val |-> IF signed /\ Head(s) = "-" THEN -mag ELSE mag,
             rest |-> rest]

(* a parse that takes HH:MM:SS.mmm texts and nothing else *)
parseTimeExactOnly(timeStr) ==
    IF /\ Len(timeStr) = 12
       /\ \A p \in {1, 2, 4, 5, 7, 8, 10, 11, 12} : IsDigit(timeStr[p])
       /\ timeStr[3] = ":" /\ timeStr[6] = ":" /\ timeStr[9] = "."
    THEN [ok |-> TRUE,
          val |-> Atoi(SubSeq(timeStr, 1, 2)) * 3600000 + Atoi(SubSeq(timeStr, 4, 5)) * 60000
                     + Atoi(SubSeq(timeStr, 7, 8)) * 1000 + Atoi(SubSeq(timeStr, 10, 12))]
    ELSE [ok |-> FALSE, val |-> 0]

(* parseTimeToSeconds: fmt.Sscanf(timeStr, "%d:%d:%f"); the result is in   *)
(* thousandths of a second; [ok, val]                                      *)
parseTimeToSeconds(timeStr) ==
    LET h == ScanInt(timeStr)
    IN IF ~h.ok \/ h.rest = <<>> \/ Head(h.rest) # ":" THEN [ok |-> FALSE, val |-> 0]
       ELSE LET m == ScanInt(Tail(h.rest))
            IN IF ~m.ok \/ m.rest = <<>> \/ Head(m.rest) # ":"
               THEN [ok |-> FALSE, val |-> 0]
               ELSE LET f == ScanFloat(Tail(m.rest))
                    IN IF ~f.ok THEN [ok |-> FALSE, val |-> 0]
                       ELSE [ok |-> TRUE,
                             val |-> h.val * 3600000 + m.val * 60000 + f.val]

-----------------------------------------------------------------------------
(* Paths, status lines and error texts *)

InputFiles == {[dir |-> "Movies", base |-> "clip", ext |-> ".mp4"],
               [dir |-> ".", base |-> "clip", ext |-> ".mp4"]}

NoFile == [dir |-> "", base |-> "", ext |-> ""]

(* basename + ".vtt": the path main() looks the transcript up at and        *)
(* transcribeAudioCmd writes it to, relative to the working directory      *)
vttFile(in) == <<in.base, ".vtt">>

(* filepath.Join(dir, file) *)
JoinPath(dir, file) == IF dir = "." THEN file ELSE <<dir, "/">> \o file

(* an output path without the input's directory *)
OutputFileInCwd(in) == <<in.base, "_compiled.mp4">>

(* the output path compileVideoSegments derives from the input path *)
OutputFile(in) == JoinPath(in.dir, <<in.base, "_compiled.mp4">>)

ErrExtract == <<"failed to extract audio: ", "exit status 1">>
ErrTranscribe == <<"API request failed with status ", "401">>
ErrWriteVtt == <<"open ", "clip", ".vtt", ": permission denied">>
ErrFfmpeg == <<"failed to compile video segments: ", "exit status 1">>
ErrNoSegments == <<"no segments selected">>
ErrParseStart(t) == <<"could not parse start time '">> \o t \o <<"': ", "unexpected EOF">>
ErrParseEnd(t) == <<"could not parse end time '">> \o t \o <<"': ", "unexpected EOF">>

-----------------------------------------------------------------------------
(* Transcripts the sidecar or the transcription service can hold *)

SampleSegments ==
    << [StartTime |-> Timecode(0, 0, 1, 0),  EndTime |-> Timecode(0, 0, 2, 0),   Text |-> "a"],
       [StartTime |-> Timecode(0, 0, 2, 0),  EndTime |-> Timecode(0, 0, 5, 0),   Text |-> "b"],
       [StartTime |-> Timecode(0, 0, 55, 0), EndTime |-> Timecode(0, 0, 58, 500), Text |-> "c"] >>

(* cues the cue pattern of parseVTT matches although the second starts    *)
(* before the first and ends before it starts                              *)
OutOfOrder ==
    << SampleSegments[3],
       [StartTime |-> Timecode(0, 0, 5, 0), EndTime |-> Timecode(0, 0, 2, 0), Text |-> "x"] >>

Transcripts ==
    {<<>>, OutOfOrder} \cup {SubSeq(SampleSegments, i, j) :
                                i \in 1..Len(SampleSegments),
                                j \in 1..Len(SampleSegments)}

BoundedTranscripts == {t \in Transcripts : Len(t) <= MaxSegments}

(* list items whose display string carries whole seconds only *)
ListItemsWholeSeconds(tItems) ==
    [k \in 1..Len(tItems) |->
        [title |-> tItems[k].Text,
         timestamp |-> SubSeq(tItems[k].StartTime, 1, 9) \o <<"0", "0", "0">> \o Sep
                          \o SubSeq(tItems[k].EndTime, 1, 9) \o <<"0", "0", "0">>,
         selected |-> FALSE]]

(* the list items built from the transcript items *)
ListItems(tItems) ==
    [k \in 1..Len(tItems) |->
        [title |-> tItems[k].Text,
         timestamp |-> tItems[k].StartTime \o Sep \o tItems[k].EndTime,
         selected |-> FALSE]]

-----------------------------------------------------------------------------
(* Compile planning *)

(* a collection that takes every item, selected or not *)
CollectAllSegments(its) ==
    [err |-> <<>>,
     segs |-> [k \in 1..Len(its) |->
                 [start |-> parseTimeToSeconds(Split(its[k].timestamp, Sep)[1]).val,
                  end |-> parseTimeToSeconds(Split(its[k].timestamp, Sep)[2]).val]]]

(* a collection that leaves out the selected items whose timestamps do not *)
(* parse instead of returning the error                                    *)
RECURSIVE CollectParsedSegments(_)
CollectParsedSegments(its) ==
    IF its = <<>> THEN [err |-> <<>>, segs |-> <<>>]
    ELSE LET i == Head(its)
             tsParts == Split(i.timestamp, Sep)
             later == CollectParsedSegments(Tail(its))
         IN IF ~i.selected \/ Len(tsParts) # 2 THEN later
            ELSE IF ~parseTimeToSeconds(tsParts[1]).ok \/ ~parseTimeToSeconds(tsParts[2]).ok
            THEN later
            ELSE [err |-> <<>>,
                  segs |-> <<[start |-> parseTimeToSeconds(tsParts[1]).val,
                              end |-> parseTimeToSeconds(tsParts[2]).val]>> \o later.segs]

(* the selected segments, in order, or the first timestamp error *)
RECURSIVE CollectSegments(_)
CollectSegments(its) ==
    IF its = <<>> THEN [err |-> <<>>, segs |-> <<>>]
    ELSE LET i == Head(its)
             tsParts == Split(i.timestamp, Sep)
         IN IF ~i.selected \/ Len(tsParts) # 2 THEN CollectSegments(Tail(its))
            ELSE LET start == parseTimeToSeconds(tsParts[1])
                     end == parseTimeToSeconds(tsParts[2])
                     later == CollectSegments(Tail(its))
                 IN IF ~start.ok THEN [err |-> ErrParseStart(tsParts[1]), segs |-> <<>>]
                    ELSE IF ~end.ok THEN [err |-> ErrParseEnd(tsParts[2]), segs |-> <<>>]
                    ELSE IF later.err # <<>> THEN later
                    ELSE [err |-> <<>>,
                          segs |-> <<[start |-> start.val, end |-> end.val]>> \o later.segs]

(* the arguments of the ffmpeg command: -y, -i, -vf select='..',setpts=..,  *)
(* -af aselect='..',asetpts=.. and the output path                         *)
NoArgs == <<>>

(* arguments whose audio filter is cut down to the first span *)
FfmpegArgsAudioFirstSpan(in, selectFilter, out) ==
    [y |-> TRUE,
     i |-> in,
     vf |-> [select |-> selectFilter, setpts |-> "N/FRAME_RATE/TB"],
     af |-> [aselect |-> <<Head(selectFilter)>>, asetpts |-> "N/SR/TB"],
     out |-> out]

FfmpegArgs(in, selectFilter, out) ==
    [y |-> TRUE,
     i |-> in,
     vf |-> [select |-> selectFilter, setpts |-> "N/FRAME_RATE/TB"],
     af |-> [aselect |-> selectFilter, asetpts |-> "N/SR/TB"],
     out |-> out]

(* a plan whose filter is cut down to the first selected segment *)
CompilePlanFirstSpan(in, its) ==
    LET c == CollectSegments(its)
    IN IF c.err # <<>>
       THEN [err |-> c.err, filter |-> <<>>, outputFile |-> <<>>, args |-> NoArgs]
       ELSE IF c.segs = <<>>
       THEN [err |-> ErrNoSegments, filter |-> <<>>, outputFile |-> <<>>, args |-> NoArgs]
       ELSE [err |-> <<>>, filter |-> <<Head(c.segs)>>, outputFile |-> OutputFile(in),
             args |-> FfmpegArgs(in, <<Head(c.segs)>>, OutputFile(in))]

(* spans that touch or overlap their successor joined into one *)
RECURSIVE MergeSpans(_)
MergeSpans(segs) ==
    IF Len(segs) <= 1 THEN segs
    ELSE IF segs[2].start <= segs[1].end
    THEN MergeSpans(<<[start |-> segs[1].start,
                       end |-> IF segs[2].end > segs[1].end THEN segs[2].end
                               ELSE segs[1].end]>> \o SubSeq(segs, 3, Len(segs)))
    ELSE <<segs[1]>> \o MergeSpans(Tail(segs))

(* a plan that merges contiguous and overlapping spans *)
CompilePlanMerged(in, its) ==
    LET c == CollectSegments(its)
    IN IF c.err # <<>>
       THEN [err |-> c.err, filter |-> <<>>, outputFile |-> <<>>, args |-> NoArgs]
       ELSE IF c.segs = <<>>
       THEN [err |-> ErrNoSegments, filter |-> <<>>, outputFile |-> <<>>, args |-> NoArgs]
       ELSE [err |-> <<>>, filter |-> MergeSpans(c.segs), outputFile |-> OutputFile(in),
             args |-> FfmpegArgs(in, MergeSpans(c.segs), OutputFile(in))]

(* compileVideoSegments up to the ffmpeg invocation: the error it returns  *)
(* early, or the between(t,start,end) terms, the output path and the       *)
(* arguments ffmpeg is started with                                        *)
CompilePlan(in, its) ==
    LET c == CollectSegments(its)
    IN IF c.err # <<>>
       THEN [err |-> c.err, filter |-> <<>>, outputFile |-> <<>>, args |-> NoArgs]
       ELSE IF c.segs = <<>>
       THEN [err |-> ErrNoSegments, filter |-> <<>>, outputFile |-> <<>>, args |-> NoArgs]
       ELSE [err |-> <<>>, filter |-> c.segs, outputFile |-> OutputFile(in),
             args |-> FfmpegArgs(in, c.segs, OutputFile(in))]

(* ffmpeg's expression evaluator on the filter: between(t,a,b) is 1 when   *)
(* a <= t <= b and 0 otherwise, the terms are added, and select / aselect  *)
(* keep the frame or sample at time t when the sum is not zero             *)
Between(t, a, b) == IF a <= t /\ t <= b THEN 1 ELSE 0

RECURSIVE FilterValue(_, _)
FilterValue(selectFilter, t) ==
    IF selectFilter = <<>> THEN 0
    ELSE Between(t, Head(selectFilter).start, Head(selectFilter).end)
         + FilterValue(Tail(selectFilter), t)

Keeps(selectFilter, t) == FilterValue(selectFilter, t) # 0

-----------------------------------------------------------------------------
(* Messages *)

KeyMsg(k) == [type |-> "KeyMsg", key |-> k]
Msg(t) == [type |-> t, key |-> ""]
NoMsg == Msg("none")

QuitKeys == {"q", "ctrl+c"}
ToggleKeys == {"enter", " "}
NavKeys == {"up", "down"}

-----------------------------------------------------------------------------
(* Initial state: main() up to tea.NewProgram *)

helperIdle == ts = <<>> /\ secs = 0 /\ res = <<>>

(* main() is inside p.Run(): nothing of the startup is looked at *)
ProcIdle == [pc |-> "p.Run"]

(* the runs explored: every transcript with the first input file, the      *)
(* transcripts of at most one segment with the others                      *)
FirstInput == [dir |-> "Movies", base |-> "clip", ext |-> ".mp4"]

(* the media files an earlier run in this working directory can have left  *)
(* the transcript file of this run for                                     *)
EarlierRuns(in, t) ==
    {f \in InputFiles : vttFile(f) = vttFile(in) /\ (f = in \/ Len(t) <= 1)}

(* a start that dispatches the extraction whether or not the transcript    *)
(* file exists                                                             *)
InitAlwaysExtracts ==
    /\ running = TRUE
    /\ quitPending = FALSE
    /\ inputFile \in InputFiles
    /\ sidecar \in BOOLEAN
    /\ transcript \in BoundedTranscripts
    /\ inputFile = FirstInput \/ Len(transcript) <= 1
    /\ sidecarOf \in IF sidecar THEN EarlierRuns(inputFile, transcript) ELSE {NoFile}
    /\ loading = ~sidecar
    /\ loadingMsg = "Extracting audio with ffmpeg..."
    /\ quitting = FALSE
    /\ errorMsg = <<>>
    /\ transcriptItems = IF sidecar THEN transcript ELSE <<>>
    /\ statuses = IF sidecar THEN <<(<<"Transcript already exists locally">>)>> ELSE <<>>
    /\ items = IF sidecar THEN ListItems(transcript) ELSE <<>>
    /\ index = 0
    /\ tickPending = TRUE
    /\ extracting = TRUE
    /\ transcribing = FALSE
    /\ compiles = <<>>
    /\ previews = EmptyBag
    /\ msg = NoMsg
    /\ helperIdle
    /\ proc = ProcIdle

Init ==
    /\ running = TRUE
    /\ quitPending = FALSE
    /\ inputFile \in InputFiles
    /\ sidecar \in BOOLEAN
    /\ transcript \in BoundedTranscripts
    /\ inputFile = FirstInput \/ Len(transcript) <= 1
    /\ sidecarOf \in IF sidecar THEN EarlierRuns(inputFile, transcript) ELSE {NoFile}
    /\ loading = ~sidecar
    /\ loadingMsg = "Extracting audio with ffmpeg..."
    /\ quitting = FALSE
    /\ errorMsg = <<>>
    /\ transcriptItems = IF sidecar THEN transcript ELSE <<>>
    /\ statuses = IF sidecar THEN <<(<<"Transcript already exists locally">>)>> ELSE <<>>
    /\ items = IF sidecar THEN ListItems(transcript) ELSE <<>>
    /\ index = 0
    /\ tickPending = ~sidecar
    /\ extracting = ~sidecar
    /\ transcribing = FALSE
    /\ compiles = <<>>
    /\ previews = EmptyBag
    /\ msg = NoMsg
    /\ helperIdle
    /\ proc = ProcIdle

-----------------------------------------------------------------------------
(* Update: key messages *)

envVars == <<inputFile, sidecar, sidecarOf, transcript, ts, secs, res, proc>>

(* a quit that is refused while a command is running *)
KeyQuitWaits(k) ==
    /\ running
    /\ quitting' = (quitting \/ ~loading)
    /\ quitPending' = (quitPending \/ ~loading)
    /\ msg' = KeyMsg(k)
    /\ UNCHANGED <<running, loading, loadingMsg, errorMsg, transcriptItems, statuses,
                   items, index, tickPending, extracting, transcribing,
                   compiles, previews>>
    /\ UNCHANGED envVars

(* case "q", "ctrl+c" *)
KeyQuit(k) ==
    /\ running
    /\ quitting' = TRUE
    /\ quitPending' = TRUE
    /\ msg' = KeyMsg(k)
    /\ UNCHANGED <<running, loading, loadingMsg, errorMsg, transcriptItems, statuses,
                   items, index, tickPending, extracting, transcribing,
                   compiles, previews>>
    /\ UNCHANGED envVars

(* the guard shared by the enter, p and c cases *)
CanAct == ~loading /\ Len(items) > 0

ValidIndex == index >= 0 /\ index < Len(items)

(* a toggle that only ever selects *)
ToggleAtSelects(its, i) == [its EXCEPT ![i + 1].selected = TRUE]

ToggleAt(its, i) == [its EXCEPT ![i + 1].selected = ~its[i + 1].selected]

(* an enter / space case without the check of loading *)
KeyToggleWhileLoading(k) ==
    /\ running
    /\ items' = IF Len(items) > 0 /\ ValidIndex THEN ToggleAt(items, index) ELSE items
    /\ msg' = KeyMsg(k)
    /\ UNCHANGED <<running, quitPending, loading, loadingMsg, quitting, errorMsg,
                   transcriptItems, statuses, index, tickPending,
                   extracting, transcribing, compiles, previews>>
    /\ UNCHANGED envVars

(* case "enter", " " *)
KeyToggle(k) ==
    /\ running
    /\ items' = IF CanAct /\ ValidIndex THEN ToggleAt(items, index) ELSE items
    /\ msg' = KeyMsg(k)
    /\ UNCHANGED <<running, quitPending, loading, loadingMsg, quitting, errorMsg,
                   transcriptItems, statuses, index, tickPending,
                   extracting, transcribing, compiles, previews>>
    /\ UNCHANGED envVars

(* the mpv invocation `go previewVideo(...)` starts for the item at i *)
PreviewOf(in, its, i) ==
    [inputFile |-> in,
     startTime |-> Split(its[i + 1].timestamp, Sep)[1],
     endTime |-> getEndTime(its, i)]

(* case "p" *)
KeyPreview ==
    /\ running
    /\ (CanAct /\ ValidIndex) => BagCardinality(previews) < MaxPreviews
    /\ previews' = IF CanAct /\ ValidIndex
                   THEN previews (+) SetToBag({PreviewOf(inputFile, items, index)})
                   ELSE previews
    /\ msg' = KeyMsg("p")
    /\ UNCHANGED <<running, quitPending, loading, loadingMsg, quitting, errorMsg,
                   transcriptItems, statuses, items, index, tickPending,
                   extracting, transcribing, compiles>>
    /\ UNCHANGED envVars

(* a compileVideoCmd that has been handed to the runtime: it holds the    *)
(* input path and shares the list's item slice                             *)
NoPlan == [err |-> <<>>, filter |-> <<>>, outputFile |-> <<>>, args |-> NoArgs]

NewCompile(in) == [phase |-> "planning", inputFile |-> in, plan |-> NoPlan]

(* the selection check replaced by the non-empty check *)
hasSelectedAnyItem(its) == Len(its) > 0

hasSelected(its) == \E k \in 1..Len(its) : its[k].selected

(* a 'c' case that clears the error of an earlier attempt *)
KeyCompileClearsError ==
    /\ running
    /\ (CanAct /\ hasSelected(items)) => Len(statuses) < MaxStatuses
    /\ IF CanAct /\ hasSelected(items)
       THEN /\ loading' = TRUE
            /\ loadingMsg' = "Compiling video segments with ffmpeg..."
            /\ tickPending' = TRUE
            /\ compiles' = Append(compiles, NewCompile(inputFile))
            /\ errorMsg' = <<>>
       ELSE UNCHANGED <<loading, loadingMsg, tickPending, compiles, errorMsg>>
    /\ msg' = KeyMsg("c")
    /\ UNCHANGED <<running, quitPending, quitting, transcriptItems, statuses,
                   items, index, extracting, transcribing, previews>>
    /\ UNCHANGED envVars

(* case "c" *)
KeyCompile ==
    /\ running
    /\ (CanAct /\ hasSelected(items)) => Len(statuses) < MaxStatuses
    /\ IF CanAct /\ hasSelected(items)
       THEN /\ loading' = TRUE
            /\ loadingMsg' = "Compiling video segments with ffmpeg..."
            /\ tickPending' = TRUE
            /\ compiles' = Append(compiles, NewCompile(inputFile))
       ELSE UNCHANGED <<loading, loadingMsg, tickPending, compiles>>
    /\ msg' = KeyMsg("c")
    /\ UNCHANGED <<running, quitPending, quitting, errorMsg, transcriptItems, statuses,
                   items, index, extracting, transcribing, previews>>
    /\ UNCHANGED envVars

(* list.Model.CursorUp / CursorDown on a single page *)
CursorUp(i) == IF i - 1 < 0 THEN 0 ELSE i - 1

(* a CursorDown without the branch for a cursor beyond the page *)
CursorDownToLast(i, n) == IF i + 1 < n THEN i + 1 ELSE n - 1

(* a CursorDown that wraps from the last item to the first *)
CursorDownWraps(i, n) == IF i + 1 < n THEN i + 1 ELSE 0

CursorDown(i, n) == IF i + 1 < n THEN i + 1 ELSE IF i + 1 > n THEN 0 ELSE n - 1

(* any other key: handed to the list when not loading *)
KeyNavigate(k) ==
    /\ running
    /\ index' = IF loading THEN index
                ELSE IF k = "up" THEN CursorUp(index)
                ELSE CursorDown(index, Len(items))
    /\ msg' = KeyMsg(k)
    /\ UNCHANGED <<running, quitPending, loading, loadingMsg, quitting, errorMsg,
                   transcriptItems, statuses, items, tickPending,
                   extracting, transcribing, compiles, previews>>
    /\ UNCHANGED envVars

-----------------------------------------------------------------------------
(* Update: messages of the commands *)

RemoveAt(q, i) == SubSeq(q, 1, i - 1) \o SubSeq(q, i + 1, Len(q))

(* case audioExtractedMsg, delivered when extractAudioCmd returns *)
AudioExtracted ==
    /\ running
    /\ extracting
    /\ extracting' = FALSE
    /\ statuses' = Append(statuses, <<"Audio extracted from ffmpeg.">>)
    /\ loadingMsg' = "Transcribing with OpenAI Whisper..."
    /\ transcribing' = TRUE
    /\ msg' = Msg("audioExtractedMsg")
    /\ UNCHANGED <<running, quitPending, loading, quitting, errorMsg, transcriptItems,
                   items, index, tickPending, compiles, previews>>
    /\ UNCHANGED envVars

(* case transcriptionDoneMsg, delivered when transcribeAudioCmd has         *)
(* received, parsed and saved the transcript                               *)
TranscriptionDone ==
    /\ running
    /\ transcribing
    /\ transcribing' = FALSE
    /\ sidecar' = TRUE
    /\ sidecarOf' = inputFile
    /\ statuses' = Append(statuses, <<"Transcription finished and saved locally.">>)
    /\ loading' = FALSE
    /\ transcriptItems' = transcript
    /\ items' = ListItems(transcript)
    /\ index' = 0
    /\ msg' = Msg("transcriptionDoneMsg")
    /\ UNCHANGED <<running, quitPending, loadingMsg, quitting, errorMsg, tickPending, extracting, compiles, previews>>
    /\ UNCHANGED <<inputFile, transcript, ts, secs, res, proc>>

(* an errorMsg case that leaves loading set *)
HandleErrorKeepsLoading(err) ==
    /\ statuses' = Append(statuses, err)
    /\ errorMsg' = err
    /\ msg' = Msg("errorMsg")
    /\ UNCHANGED <<running, quitPending, loading, loadingMsg, quitting, transcriptItems,
                   items, index, tickPending, previews>>
    /\ UNCHANGED <<inputFile, transcript, ts, secs, res, proc>>

(* case errorMsg: what Update does with the error text *)
HandleError(err) ==
    /\ statuses' = Append(statuses, err)
    /\ loading' = FALSE
    /\ errorMsg' = err
    /\ msg' = Msg("errorMsg")
    /\ UNCHANGED <<running, quitPending, loadingMsg, quitting, transcriptItems, items,
                   index, tickPending, previews>>
    /\ UNCHANGED <<inputFile, transcript, ts, secs, res, proc>>

(* an extraction failure after which the transcription is started anyway *)
ExtractFailedTranscribes ==
    /\ running
    /\ extracting
    /\ extracting' = FALSE
    /\ HandleError(ErrExtract)
    /\ transcribing' = TRUE
    /\ UNCHANGED <<compiles, sidecar, sidecarOf>>

(* extractAudioCmd returns errorMsg *)
ExtractFailed ==
    /\ running
    /\ extracting
    /\ extracting' = FALSE
    /\ HandleError(ErrExtract)
    /\ UNCHANGED <<transcribing, compiles, sidecar, sidecarOf>>

(* transcribeAudioCmd returns errorMsg: the request failed, or the          *)
(* transcript could not be written                                         *)
TranscribeFailed(err) ==
    /\ running
    /\ transcribing
    /\ transcribing' = FALSE
    /\ HandleError(err)
    /\ UNCHANGED <<extracting, compiles, sidecar, sidecarOf>>

(* the command's goroutine runs compileVideoSegments up to exec of ffmpeg  *)
CompileStart(i) ==
    /\ running
    /\ i \in 1..Len(compiles)
    /\ compiles[i].phase = "planning"
    /\ LET plan == CompilePlan(compiles[i].inputFile, items)
       IN compiles' = [compiles EXCEPT ![i] =
                          [phase |-> IF plan.err # <<>> THEN "failed" ELSE "ffmpeg",
                           inputFile |-> compiles[i].inputFile,
                           plan |-> plan]]
    /\ msg' = NoMsg
    /\ UNCHANGED <<running, quitPending, tickPending, extracting, transcribing,
                   previews>>
    /\ UNCHANGED modelVars
    /\ UNCHANGED envVars

(* a videoCompilationDoneMsg case that goes back to the checklist *)
CompileDoneStays(i) ==
    /\ running
    /\ i \in 1..Len(compiles)
    /\ compiles[i].phase = "ffmpeg"
    /\ compiles' = RemoveAt(compiles, i)
    /\ statuses' = statuses \o << <<"Video compiled successfully.">>,
                                  <<"Saved output to ">> \o compiles[i].plan.outputFile >>
    /\ loading' = FALSE
    /\ msg' = Msg("videoCompilationDoneMsg")
    /\ UNCHANGED <<running, quitPending, quitting, loadingMsg, errorMsg, transcriptItems,
                   items, index, tickPending, extracting, transcribing, previews>>
    /\ UNCHANGED envVars

(* case videoCompilationDoneMsg, delivered when ffmpeg exits with 0 *)
CompileDone(i) ==
    /\ running
    /\ i \in 1..Len(compiles)
    /\ compiles[i].phase = "ffmpeg"
    /\ compiles' = RemoveAt(compiles, i)
    /\ statuses' = statuses \o << <<"Video compiled successfully.">>,
                                  <<"Saved output to ">> \o compiles[i].plan.outputFile >>
    /\ loading' = FALSE
    /\ quitting' = TRUE
    /\ quitPending' = TRUE
    /\ msg' = Msg("videoCompilationDoneMsg")
    /\ UNCHANGED <<running, loadingMsg, errorMsg, transcriptItems, items, index,
                   tickPending, extracting, transcribing, previews>>
    /\ UNCHANGED envVars

(* a compile failure that is followed by a new attempt of its own accord *)
CompileFailedRetries(i) ==
    /\ running
    /\ i \in 1..Len(compiles)
    /\ compiles[i].phase \in {"failed", "ffmpeg"}
    /\ Len(statuses) < MaxStatuses
    /\ compiles' = Append(RemoveAt(compiles, i), NewCompile(inputFile))
    /\ HandleError(IF compiles[i].phase = "failed" THEN compiles[i].plan.err ELSE ErrFfmpeg)
    /\ UNCHANGED <<extracting, transcribing, sidecar, sidecarOf>>

(* compileVideoCmd returns errorMsg: a timestamp error, or ffmpeg failed *)
CompileFailed(i) ==
    /\ running
    /\ i \in 1..Len(compiles)
    /\ compiles[i].phase \in {"failed", "ffmpeg"}
    /\ compiles' = RemoveAt(compiles, i)
    /\ HandleError(IF compiles[i].phase = "failed" THEN compiles[i].plan.err ELSE ErrFfmpeg)
    /\ UNCHANGED <<extracting, transcribing, sidecar, sidecarOf>>

(* case spinner.TickMsg: while loading the spinner advances and asks for  *)
(* its next tick, otherwise the tick is dropped; the frame shown is not    *)
(* part of the state                                                       *)
SpinnerTick ==
    /\ running
    /\ tickPending
    /\ tickPending' = loading
    /\ msg' = Msg("spinner.TickMsg")
    /\ UNCHANGED <<running, quitPending, loading, loadingMsg, quitting, errorMsg,
                   transcriptItems, statuses, items, index, extracting, transcribing,
                   compiles, previews>>
    /\ UNCHANGED envVars

-----------------------------------------------------------------------------
(* The runtime and the external processes *)

(* the QuitMsg of tea.Quit reaches the event loop: Run returns *)
DeliverQuit ==
    /\ running
    /\ quitPending
    /\ running' = FALSE
    /\ quitPending' = FALSE
    /\ msg' = NoMsg
    /\ UNCHANGED <<tickPending, extracting, transcribing, compiles, previews>>
    /\ UNCHANGED modelVars
    /\ UNCHANGED envVars

(* what cmd.Run() of previewVideo can return *)
RunResults == {"exit status 0", "exit status 1", "executable file not found"}

RunResult(r) == [type |-> "cmd.Run", key |-> r]

(* an mpv run whose failure is put on the status list *)
PreviewExitReports(p, r) ==
    /\ BagIn(p, previews)
    /\ previews' = previews (-) SetToBag({p})
    /\ msg' = RunResult(r)
    /\ statuses' = IF r = "exit status 0" \/ Len(statuses) >= MaxStatuses THEN statuses
                   ELSE Append(statuses, <<r>>)
    /\ UNCHANGED <<running, quitPending, tickPending, extracting, transcribing,
                   compiles, loading, loadingMsg, quitting, errorMsg,
                   transcriptItems, items, index>>
    /\ UNCHANGED envVars

(* cmd.Run() of previewVideo returns: mpv ended, or could not be started;  *)
(* the result is dropped and the goroutine ends                            *)
PreviewExit(p, r) ==
    /\ BagIn(p, previews)
    /\ previews' = previews (-) SetToBag({p})
    /\ msg' = RunResult(r)
    /\ UNCHANGED <<running, quitPending, tickPending, extracting, transcribing,
                   compiles>>
    /\ UNCHANGED modelVars
    /\ UNCHANGED envVars

Next ==
    \/ \E k \in QuitKeys : KeyQuit(k)
    \/ \E k \in ToggleKeys : KeyToggle(k)
    \/ KeyPreview
    \/ KeyCompile
    \/ \E k \in NavKeys : KeyNavigate(k)
    \/ AudioExtracted
    \/ TranscriptionDone
    \/ ExtractFailed
    \/ \E err \in {ErrTranscribe, ErrWriteVtt} : TranscribeFailed(err)
    \/ \E i \in 1..Len(compiles) : CompileStart(i)
    \/ \E i \in 1..Len(compiles) : CompileDone(i)
    \/ \E i \in 1..Len(compiles) : CompileFailed(i)
    \/ SpinnerTick
    \/ DeliverQuit
    \/ \E p \in BagToSet(previews), r \in RunResults : PreviewExit(p, r)

Spec == Init /\ [][Next]_vars

-----------------------------------------------------------------------------
(* addSecondsToTimestamp on its own: every well-formed timecode of the     *)
(* sample fields, every number of seconds up to MaxAdd                     *)

SampleHours == {0, 23}
SampleMinutes == {0, 1, 59}
SampleMillis == {0, 999}

WellFormedTimecodes ==
    {Timecode(h, m, s, ms) : h \in SampleHours, m \in SampleMinutes,
                             s \in 0..59, ms \in SampleMillis}

InitAddSeconds ==
    /\ running = FALSE
    /\ quitPending = FALSE
    /\ inputFile \in InputFiles
    /\ sidecar = FALSE
    /\ sidecarOf = NoFile
    /\ transcript = <<>>
    /\ loading = FALSE
    /\ loadingMsg = ""
    /\ quitting = FALSE
    /\ errorMsg = <<>>
    /\ transcriptItems = <<>>
    /\ statuses = <<>>
    /\ items = <<>>
    /\ index = 0
    /\ tickPending = FALSE
    /\ extracting = FALSE
    /\ transcribing = FALSE
    /\ compiles = <<>>
    /\ previews = EmptyBag
    /\ msg = NoMsg
    /\ ts \in WellFormedTimecodes
    /\ secs \in 0..MaxAdd
    /\ res = <<>>
    /\ proc = ProcIdle

ApplyAddSeconds ==
    /\ res = <<>>
    /\ res' = addSecondsToTimestamp(ts, secs)
    /\ UNCHANGED <<running, quitPending, inputFile, sidecar, sidecarOf, transcript, tickPending,
                   extracting, transcribing, compiles, previews, msg, ts, secs, proc>>
    /\ UNCHANGED modelVars

NextAddSeconds == ApplyAddSeconds

SpecAddSeconds == InitAddSeconds /\ [][NextAddSeconds]_vars

-----------------------------------------------------------------------------
(* Session states, read off the model's flags *)

Done == quitting
Interactive == ~loading /\ ~quitting
CompilePending == loading /\ ~quitting /\ compiles # <<>>
AnySelected == \E k \in DOMAIN items : items[k].selected
InFlight == BagCardinality(previews) + Len(compiles)
CompileKey == KeyMsg("c")
PreviewKey == KeyMsg("p")
IsToggleKey(m) == m.type = "KeyMsg" /\ m.key \in {"enter", " "}
IsQuitKey(m) == m.type = "KeyMsg" /\ m.key \in {"q", "ctrl+c"}

(* <directory of the input>/<base name without extension>_compiled.mp4,    *)
(* spelled out piece by piece                                              *)
ExpectedOutput(in) ==
    IF in.dir = "." THEN <<in.base, "_compiled.mp4">>
    ELSE <<in.dir, "/", in.base, "_compiled.mp4">>

-----------------------------------------------------------------------------
(* C1: a 'c' handled in Interactive while no segment is selected changes   *)
(* nothing: loading stays false, cursor, items, statuses and errorMsg are  *)
(* as before and no compile command is dispatched.                         *)
C1_CompileWithoutSelectionIgnored ==
    [][(msg' = CompileKey /\ Interactive /\ ~AnySelected)
        => UNCHANGED <<loading, loadingMsg, quitting, index, items, statuses,
                       errorMsg, transcriptItems, compiles, previews,
                       extracting, transcribing, tickPending>>]_vars

C1_Witness ==
    /\ msg = CompileKey
    /\ Interactive
    /\ Len(items) = 2
    /\ ~AnySelected
    /\ compiles = <<>>

(* C2: at most one previewer or transcoder invocation is in flight.        *)
C2_SingleOutstandingOp == InFlight <= 1

(* C3: when ffmpeg ends successfully the session becomes Done in that      *)
(* step (quitting set, tea.Quit issued), the last status names the output  *)
(* path, and a session that is Done is never Interactive again.            *)
C3_CompileSuccessEndsSession ==
    [][/\ (msg' = Msg("videoCompilationDoneMsg"))
            => /\ quitting' /\ quitPending' /\ ~loading'
               /\ Len(statuses') = Len(statuses) + 2
               /\ statuses'[Len(statuses')] =
                    <<"Saved output to ">> \o ExpectedOutput(inputFile)
       /\ Done => ~Interactive']_vars

C3_Witness ==
    /\ msg = Msg("videoCompilationDoneMsg")
    /\ Done
    /\ quitPending
    /\ statuses[Len(statuses)] = <<"Saved output to ", "Movies", "/", "clip", "_compiled.mp4">>

(* C4: when a compile fails the session is Interactive again (loading      *)
(* false, quitting as it was), the error text is the new last status,      *)
(* cursor and selected flags did not move since the request (no step       *)
(* changes them while a compile is in flight), and a 'c' handled afterwards *)
(* with a selection dispatches a new compile.                              *)
C4_CompileFailureReturnsToInteractive ==
    [][/\ (msg' = Msg("errorMsg") /\ Len(compiles') < Len(compiles))
            => /\ ~loading'
               /\ quitting' = quitting
               /\ errorMsg' # <<>>
               /\ statuses' = Append(statuses, errorMsg')
               /\ items' = items /\ index' = index
       /\ (compiles # <<>>) => (items' = items /\ index' = index)
       /\ (msg' = CompileKey /\ ~loading /\ AnySelected)
            => /\ loading'
               /\ compiles' = Append(compiles, [phase |-> "planning",
                                                inputFile |-> inputFile,
                                                plan |-> NoPlan])
               /\ items' = items /\ index' = index]_vars

C4_Witness ==
    /\ msg = CompileKey
    /\ errorMsg = ErrFfmpeg
    /\ statuses[Len(statuses)] = ErrFfmpeg
    /\ CompilePending
    /\ Len(compiles) = 1

(* C5: a 'q' or ctrl+c sets quitting in the step that handles it, whatever *)
(* the state, and leaves every running command and preview as it is.       *)
C5_QuitImmediateNoCancel ==
    [][IsQuitKey(msg')
        => /\ Done'
           /\ UNCHANGED <<extracting, transcribing, compiles, previews>>]_vars

C5_Witness ==
    /\ IsQuitKey(msg)
    /\ Done
    /\ loading
    /\ Len(compiles) = 1
    /\ BagCardinality(previews) = 1

(* C6: once quitting is true no step makes it false, and no step makes     *)
(* loading true.                                                           *)
C6_DoneIsTerminal ==
    [][Done => (Done' /\ (loading' => loading))]_vars

(* C7: a toggle key handled in Interactive on a non-empty list negates the *)
(* selected flag of the item at the cursor and leaves the rest of the list *)
(* and the cursor alone; toggling once more from the resulting state gives *)
(* the list back.                                                          *)
C7_ToggleInvolution ==
    [][(IsToggleKey(msg') /\ Interactive /\ Len(items) > 0)
        => /\ index \in 0..(Len(items) - 1)
           /\ index' = index
           /\ Len(items') = Len(items)
           /\ items'[index + 1].selected = ~items[index + 1].selected
           /\ \A k \in DOMAIN items : k # index + 1 => items'[k] = items[k]
           /\ ToggleAt(items', index') = items]_vars

C7_Witness ==
    /\ IsToggleKey(msg)
    /\ Interactive
    /\ Len(items) = 2
    /\ index = 1
    /\ items[2].selected
    /\ ~items[1].selected

(* C8: except in the step that loads the transcript, no step changes the   *)
(* number, order, timestamps or text of the segments, and a selected flag  *)
(* changes only in a step that handles a toggle key in Interactive, and    *)
(* then only the flag of the item at the cursor.                           *)
C8_OnlyToggleChangesSelection ==
    [][(msg' # Msg("transcriptionDoneMsg"))
        => /\ transcriptItems' = transcriptItems
           /\ Len(items') = Len(items)
           /\ \A k \in DOMAIN items :
                /\ items'[k].title = items[k].title
                /\ items'[k].timestamp = items[k].timestamp
           /\ (items' # items)
                => /\ IsToggleKey(msg')
                   /\ Interactive
                   /\ \A k \in DOMAIN items : k # index + 1 => items'[k] = items[k]]_vars

(* C8 with Interactive weakened to "not loading" (the guard of the code):  *)
(* this is what the code keeps, also for a toggle handled after Quit.      *)
C8_FrameWhenNotLoading ==
    [][(msg' # Msg("transcriptionDoneMsg"))
        => /\ transcriptItems' = transcriptItems
           /\ Len(items') = Len(items)
           /\ \A k \in DOMAIN items :
                /\ items'[k].title = items[k].title
                /\ items'[k].timestamp = items[k].timestamp
           /\ (items' # items)
                => /\ IsToggleKey(msg')
                   /\ ~loading
                   /\ \A k \in DOMAIN items : k # index + 1 => items'[k] = items[k]]_vars

(* C9: a 'p' handled in Interactive with the cursor on segment i starts    *)
(* one mpv on the input file from the start of segment i to the start of   *)
(* segment i+1, or to addSeconds(start of i, 10) when i is the last one.   *)
ExpectedPreview ==
    [inputFile |-> inputFile,
     startTime |-> transcriptItems[index + 1].StartTime,
     endTime |-> IF index + 2 <= Len(transcriptItems)
                 THEN transcriptItems[index + 2].StartTime
                 ELSE addSecondsToTimestamp(transcriptItems[index + 1].StartTime, 10)]

C9_PreviewRange ==
    [][(msg' = PreviewKey /\ Interactive /\ Len(items) > 0)
        => previews' = previews (+) SetToBag({ExpectedPreview})]_vars

C9_Witness ==
    /\ msg = PreviewKey
    /\ Len(items) = 2
    /\ BagIn([inputFile |-> inputFile, startTime |-> Timecode(0, 0, 1, 0),
              endTime |-> Timecode(0, 0, 2, 0)], previews)
    /\ BagIn([inputFile |-> inputFile, startTime |-> Timecode(0, 0, 2, 0),
              endTime |-> Timecode(0, 0, 12, 0)], previews)

(* C10: for a well-formed timecode HH:MM:SS.mmm and n >= 0 the result of   *)
(* addSecondsToTimestamp has the same HH, MM and mmm and the seconds field *)
(* SS+n when that is below 60, else 59.                                    *)
C10_AddSecondsClamps ==
    (res # <<>>)
        => LET ss == Atoi(SubSeq(ts, 7, 8))
           IN /\ Len(res) = 12
              /\ SubSeq(res, 1, 6) = SubSeq(ts, 1, 6)
              /\ SubSeq(res, 9, 12) = SubSeq(ts, 9, 12)
              /\ SubSeq(res, 7, 8) =
                    ZeroPad(Itoa(IF ss + secs < 60 THEN ss + secs ELSE 59), 2)
              /\ (ts = Timecode(0, 1, 0, 0) /\ secs = 10) => res = Timecode(0, 1, 10, 0)
              /\ (ts = Timecode(0, 0, 55, 0) /\ secs = 10) => res = Timecode(0, 0, 59, 0)

C10_Witness ==
    /\ ts = Timecode(0, 0, 55, 0)
    /\ secs = 10
    /\ res = Timecode(0, 0, 59, 0)

-----------------------------------------------------------------------------
(* The spans a selection stands for, read off the transcript items: the    *)
(* digits of HH:MM:SS.mmm by position, in thousandths of a second          *)

TimecodeMillis(tc) ==
    ((DigitVal(tc[1]) * 10 + DigitVal(tc[2])) * 3600
       + (DigitVal(tc[4]) * 10 + DigitVal(tc[5])) * 60
       + (DigitVal(tc[7]) * 10 + DigitVal(tc[8]))) * 1000
    + DigitVal(tc[10]) * 100 + DigitVal(tc[11]) * 10 + DigitVal(tc[12])

SelectedIndexes == SelectSeq([k \in 1..Len(items) |-> k], LAMBDA k : items[k].selected)

ExpectedSpans ==
    [n \in 1..Len(SelectedIndexes) |->
        [start |-> TimecodeMillis(transcriptItems[SelectedIndexes[n]].StartTime),
         end |-> TimecodeMillis(transcriptItems[SelectedIndexes[n]].EndTime)]]

Planned(i) == i \in 1..Len(compiles) /\ compiles[i].phase = "ffmpeg"

(* C11: every compile that was dispatched gets a plan (none fails in       *)
(* planning), and the plan holds exactly one span per selected segment, in *)
(* segment order, none for an unselected one, each span being the          *)
(* segment's start and end timecodes converted to seconds.                 *)
C11_OneSpanPerSelectedSegment ==
    \A i \in 1..Len(compiles) :
        /\ compiles[i].phase # "failed"
        /\ Planned(i) => compiles[i].plan.filter = ExpectedSpans

(* only 00:00:02.000 - 00:00:05.000 is selected: the plan is (2.0, 5.0) *)
C11_Witness ==
    /\ Len(items) = 2
    /\ ~items[1].selected
    /\ items[2].selected
    /\ \E i \in 1..Len(compiles) :
          Planned(i) /\ compiles[i].plan.filter = <<[start |-> 2000, end |-> 5000]>>

-----------------------------------------------------------------------------
(* Times at which the filter of a plan is probed: every span boundary of   *)
(* the selection, one thousandth before and after it, and 0                *)

Boundaries == {ExpectedSpans[n].start : n \in DOMAIN ExpectedSpans}
                 \cup {ExpectedSpans[n].end : n \in DOMAIN ExpectedSpans}

ProbeTimes == {0} \cup {x + d : x \in Boundaries, d \in {-1, 0, 1}}

InHalfOpenSpan(t) ==
    \E n \in DOMAIN ExpectedSpans : ExpectedSpans[n].start <= t /\ t < ExpectedSpans[n].end

InClosedSpan(t) ==
    \E n \in DOMAIN ExpectedSpans : ExpectedSpans[n].start <= t /\ t <= ExpectedSpans[n].end

VideoSelect(i) == compiles[i].plan.args.vf.select
AudioSelect(i) == compiles[i].plan.args.af.aselect

(* C12, as stated: the filter ffmpeg is given keeps time t exactly when    *)
(* start <= t < end for some selected span, so it drops t = end of a span  *)
(* unless another selected span contains t.                                *)
C12_FilterHalfOpen ==
    \A i \in 1..Len(compiles) :
        Planned(i) => \A t \in ProbeTimes : Keeps(VideoSelect(i), t) <=> InHalfOpenSpan(t)

(* C12, amended: the filter ffmpeg is given keeps time t exactly when      *)
(* start <= t <= end for some selected span; the end of a span is kept.    *)
C12_FilterClosed ==
    \A i \in 1..Len(compiles) :
        Planned(i) => \A t \in ProbeTimes : Keeps(VideoSelect(i), t) <=> InClosedSpan(t)

(* the single span (2.0, 5.0): kept from 2.000 to 5.000, both included *)
C12_Witness ==
    \E i \in 1..Len(compiles) :
        /\ Planned(i)
        /\ VideoSelect(i) = <<[start |-> 2000, end |-> 5000]>>
        /\ ~Keeps(VideoSelect(i), 1999)
        /\ Keeps(VideoSelect(i), 2000)
        /\ Keeps(VideoSelect(i), 5000)
        /\ ~Keeps(VideoSelect(i), 5001)

-----------------------------------------------------------------------------
(* C13, as stated: the span list of a plan is minimal and non-overlapping: *)
(* contiguous or overlapping selected segments are merged, so every span   *)
(* ends strictly before the next one starts.                               *)
C13_SpansMerged ==
    \A i \in 1..Len(compiles) :
        Planned(i) =>
            \A k, j \in DOMAIN compiles[i].plan.filter :
                k < j => compiles[i].plan.filter[k].end < compiles[i].plan.filter[j].start

(* the selected segment after the n-th selected one starts where it ends *)
ContiguousSelected(n) ==
    /\ n + 1 \in DOMAIN SelectedIndexes
    /\ transcriptItems[SelectedIndexes[n]].EndTime
          = transcriptItems[SelectedIndexes[n + 1]].StartTime

(* C13, amended: nothing is merged. The span list of a plan has as many    *)
(* spans as there are selected segments, and two contiguous selected       *)
(* segments stay two spans, the second starting where the first ends.      *)
C13_SpansNotMerged ==
    \A i \in 1..Len(compiles) :
        Planned(i) =>
            /\ Len(compiles[i].plan.filter) = Len(SelectedIndexes)
            /\ \A n \in DOMAIN SelectedIndexes :
                  ContiguousSelected(n) =>
                      compiles[i].plan.filter[n].end = compiles[i].plan.filter[n + 1].start

(* 00:00:01.000 - 00:00:02.000 and 00:00:02.000 - 00:00:05.000 selected *)
C13_Witness ==
    \E i \in 1..Len(compiles) :
        /\ Planned(i)
        /\ ContiguousSelected(1)
        /\ compiles[i].plan.filter
              = <<[start |-> 1000, end |-> 2000], [start |-> 2000, end |-> 5000]>>

-----------------------------------------------------------------------------
(* C14: in every ffmpeg invocation of a compile the time-selection         *)
(* expression of the video filter (select) is the one of the audio filter  *)
(* (aselect): the same terms, keeping the same times.                      *)
C14_VideoAudioSameSelection ==
    \A i \in 1..Len(compiles) :
        Planned(i) =>
            /\ VideoSelect(i) = AudioSelect(i)
            /\ \A t \in ProbeTimes : Keeps(VideoSelect(i), t) <=> Keeps(AudioSelect(i), t)

(* an invocation for two selected segments *)
C14_Witness ==
    \E i \in 1..Len(compiles) :
        /\ Planned(i)
        /\ Len(VideoSelect(i)) = 2
        /\ AudioSelect(i) = VideoSelect(i)
        /\ compiles[i].plan.args.vf.setpts # compiles[i].plan.args.af.asetpts

-----------------------------------------------------------------------------
(* C15: the output path of every compile is a function of the input path   *)
(* only, <dir of input>/<base without extension>_compiled.mp4, whatever    *)
(* the selection and however often compile is run; ffmpeg is started with  *)
(* -y, so a file already at that path is overwritten.                      *)
C15_OutputPathFromInputOnly ==
    \A i \in 1..Len(compiles) :
        /\ compiles[i].inputFile = inputFile
        /\ Planned(i) =>
              /\ compiles[i].plan.outputFile = ExpectedOutput(inputFile)
              /\ compiles[i].plan.args.out = ExpectedOutput(inputFile)
              /\ compiles[i].plan.args.i = inputFile
              /\ compiles[i].plan.args.y

(* a second compile of the session, after ffmpeg failed in the first *)
C15_Witness ==
    /\ errorMsg = ErrFfmpeg
    /\ inputFile.dir = "Movies"
    /\ \E i \in 1..Len(compiles) :
          /\ Planned(i)
          /\ compiles[i].plan.args.out = <<"Movies", "/", "clip", "_compiled.mp4">>
          /\ compiles[i].plan.args.y

-----------------------------------------------------------------------------
(* The session was started from an existing transcript file: main() left   *)
(* this line as the first status                                           *)
CachedStart == statuses # <<>> /\ statuses[1] = <<"Transcript already exists locally">>

StartsInteractive ==
    /\ Interactive
    /\ CachedStart
    /\ transcriptItems = transcript
    /\ Len(items) = Len(transcript)
    /\ \A k \in DOMAIN items :
          /\ ~items[k].selected
          /\ items[k].title = transcript[k].Text
          /\ items[k].timestamp = transcript[k].StartTime \o <<" ", "-", " ">> \o transcript[k].EndTime
    /\ ~extracting
    /\ ~transcribing

NoPipeline ==
    /\ ~extracting
    /\ ~transcribing
    /\ msg.type \notin {"audioExtractedMsg", "transcriptionDoneMsg"}
    /\ \A n \in DOMAIN statuses :
          statuses[n] \notin {<<"Audio extracted from ffmpeg.">>,
                              <<"Transcription finished and saved locally.">>}

(* C16: when the transcript file exists at startup the session starts in   *)
(* Interactive with the segments parsed from it, all unselected, and at no *)
(* point of that run is the extraction or the transcription running or     *)
(* reported: a run that finds the file a first run saved issues no         *)
(* transcription call.                                                     *)
C16_CachedStartSkipsPipeline ==
    (sidecar => StartsInteractive) /\ [](CachedStart => NoPipeline)

(* a run started from the file that went on to a compile *)
C16_Witness ==
    /\ CachedStart
    /\ sidecarOf = inputFile
    /\ Len(items) = 2
    /\ loading
    /\ compiles # <<>>
    /\ NoPipeline

-----------------------------------------------------------------------------
(* <directory of the source media>/<base name>.vtt *)
AlongsideSource(in) ==
    IF in.dir = "." THEN <<in.base, ".vtt">> ELSE <<in.dir, "/", in.base, ".vtt">>

(* C17: the transcript file is written and looked up alongside the source  *)
(* media, so the file a run finds or leaves is the one of its own media,   *)
(* never the one of a media file of the same base name in another          *)
(* directory.                                                              *)
C17_SidecarAlongsideSource ==
    /\ vttFile(inputFile) = AlongsideSource(inputFile)
    /\ sidecar => sidecarOf = inputFile

-----------------------------------------------------------------------------
(* Everything but the label of the last message *)
allButMsg == <<running, quitPending, inputFile, sidecar, sidecarOf, transcript, loading,
               loadingMsg, quitting, errorMsg, transcriptItems, statuses, items,
               index, tickPending, extracting, transcribing, compiles, previews,
               ts, secs, res, proc>>

IntentKeys == {KeyMsg(k) : k \in {"up", "down", "enter", " ", "p", "c"}}

-----------------------------------------------------------------------------
CursorInBounds == Len(items) > 0 => (0 <= index /\ index < Len(items))

(* a cursor key moves the cursor one place in its direction or leaves it,  *)
(* and leaves the items alone                                              *)
NavigateStep ==
    /\ msg' = KeyMsg("down") => index' \in {index, index + 1}
    /\ msg' = KeyMsg("up") => index' \in {index - 1, index}
    /\ msg' \in {KeyMsg("up"), KeyMsg("down")} => items' = items

(* C19: whenever the items are non-empty the cursor is an index of them;   *)
(* a cursor key moves the cursor by at most one position, never from the   *)
(* last item round to the first or back, and changes no selected flag.     *)
C19_CursorBoundedNoWrap == []CursorInBounds /\ [][NavigateStep]_vars

(* a cursor-down from the first of two items, the first one selected *)
C19_Witness ==
    /\ Interactive
    /\ Len(items) = 2
    /\ items[1].selected
    /\ index = 1
    /\ msg = KeyMsg("down")

-----------------------------------------------------------------------------
(* C20: every segment the session holds, parsed from a fresh transcription *)
(* or from the transcript file, starts before it ends, and the segments    *)
(* are in non-decreasing order of their start times.                       *)
C20_SegmentsWellOrdered ==
    /\ \A k \in DOMAIN transcriptItems :
          TimecodeMillis(transcriptItems[k].StartTime)
             < TimecodeMillis(transcriptItems[k].EndTime)
    /\ \A k, j \in DOMAIN transcriptItems :
          k < j => TimecodeMillis(transcriptItems[k].StartTime)
                      <= TimecodeMillis(transcriptItems[j].StartTime)

-----------------------------------------------------------------------------
(* Update and compileVideoCmd over stored timestamps of any shape: the     *)
(* model's item type admits every string, so the handlers are exercised    *)
(* from sessions whose items hold timestamps in the MM:SS.XX rendering     *)
(* next to HH:MM:SS.mmm ones                                               *)

StoredItemPool ==
    { [title |-> "b", selected |-> FALSE,
       timestamp |-> Timecode(0, 0, 2, 0) \o Sep \o Timecode(0, 0, 5, 0)],
      [title |-> "m", selected |-> FALSE,
       timestamp |-> <<"0", "0", ":", "0", "1", ".", "0", "0">> \o Sep
                        \o <<"0", "0", ":", "0", "2", ".", "0", "0">>],
      [title |-> "n", selected |-> FALSE,
       timestamp |-> Timecode(0, 0, 1, 0) \o Sep
                        \o <<"0", "0", ":", "0", "2", ".", "0", "0">>] }

StoredItemLists ==
    {<<i>> : i \in StoredItemPool} \cup {<<i, j>> : i, j \in StoredItemPool}

InitStored ==
    /\ running = TRUE
    /\ quitPending = FALSE
    /\ inputFile = FirstInput
    /\ sidecar = TRUE
    /\ sidecarOf = FirstInput
    /\ transcript = <<>>
    /\ loading = FALSE
    /\ loadingMsg = "Extracting audio with ffmpeg..."
    /\ quitting = FALSE
    /\ errorMsg = <<>>
    /\ items \in StoredItemLists
    /\ transcriptItems = [k \in 1..Len(items) |->
                            [StartTime |-> Split(items[k].timestamp, Sep)[1],
                             EndTime |-> Split(items[k].timestamp, Sep)[2],
                             Text |-> items[k].title]]
    /\ statuses = <<(<<"Transcript already exists locally">>)>>
    /\ index = 0
    /\ tickPending = FALSE
    /\ extracting = FALSE
    /\ transcribing = FALSE
    /\ compiles = <<>>
    /\ previews = EmptyBag
    /\ msg = NoMsg
    /\ helperIdle
    /\ proc = ProcIdle

NextStored ==
    \/ \E k \in ToggleKeys : KeyToggle(k)
    \/ \E k \in NavKeys : KeyNavigate(k)
    \/ KeyCompile
    \/ \E i \in 1..Len(compiles) : CompileStart(i)
    \/ \E i \in 1..Len(compiles) : CompileDone(i)
    \/ \E i \in 1..Len(compiles) : CompileFailed(i)

SpecStored == InitStored /\ [][NextStored]_vars

-----------------------------------------------------------------------------
(* HH:MM:SS.mmm, character by character *)
ExactTimecode(t) ==
    /\ Len(t) = 12
    /\ \A p \in {1, 2, 4, 5, 7, 8, 10, 11, 12} : IsDigit(t[p])
    /\ t[3] = ":" /\ t[6] = ":" /\ t[9] = "."

WellFormedStamp(t) ==
    /\ Len(t) = 27
    /\ ExactTimecode(SubSeq(t, 1, 12))
    /\ SubSeq(t, 13, 15) = <<" ", "-", " ">>
    /\ ExactTimecode(SubSeq(t, 16, 27))

MalformedSelected ==
    \E k \in DOMAIN items : items[k].selected /\ ~WellFormedStamp(items[k].timestamp)

TimestampError(e) ==
    /\ e # <<>>
    /\ e[1] \in {"could not parse start time '", "could not parse end time '"}

StoredStampsWellFormed == \A k \in DOMAIN items : WellFormedStamp(items[k].timestamp)

-----------------------------------------------------------------------------
(* formatTimestamp of the first version of the program: HH:MM:SS.mmm to    *)
(* MM:SS.XX                                                                *)

(* the characters of the texts used here, in byte order *)
ByteOrder == <<" ", "+", "-", ".", "0", "1", "2", "3", "4", "5", "6", "7", "8", "9", ":", "x">>

ByteOf(c) == CHOOSE p \in 1..Len(ByteOrder) : ByteOrder[p] = c

(* fmt.Sprintf("%-3s", s) *)
PadRight3(s) == IF Len(s) >= 3 THEN s ELSE SubSeq(s \o <<" ", " ", " ">>, 1, 3)

(* a formatTimestamp that cuts the milliseconds instead of rounding them *)
formatTimestampTruncates(timestamp) ==
    LET parts == Split(timestamp, <<":">>)
    IN IF Len(parts) # 3 THEN timestamp
       ELSE LET secParts == Split(parts[3], <<".">>)
            IN IF Len(secParts) # 2 THEN timestamp
               ELSE parts[2] \o <<":">> \o secParts[1] \o <<".">>
                       \o SubSeq(PadRight3(secParts[2]), 1, 2)

formatTimestamp(timestamp) ==
    LET parts == Split(timestamp, <<":">>)
    IN IF Len(parts) # 3 THEN timestamp
       ELSE LET secParts == Split(parts[3], <<".">>)
            IN IF Len(secParts) # 2 THEN timestamp
               ELSE LET milliseconds == secParts[2]
                    IN IF Len(milliseconds) >= 3
                       THEN LET scan == ScanInt(SubSeq(milliseconds, 1, 2))
                                val == (IF scan.ok THEN scan.val ELSE 0) + 1
                                hundredths ==
                                    IF ByteOf(milliseconds[3]) >= ByteOf("5")
                                    THEN Fmt02d(IF val >= 100 THEN 99 ELSE val)
                                    ELSE SubSeq(milliseconds, 1, 2)
                            IN parts[2] \o <<":">> \o secParts[1] \o <<".">> \o hundredths
                       ELSE parts[2] \o <<":">> \o secParts[1] \o <<".">>
                               \o SubSeq(PadRight3(milliseconds), 1, 2)

-----------------------------------------------------------------------------
(* parseTimeToSeconds and formatTimestamp on their own: timecodes of the   *)
(* sample fields, and texts that differ from a timecode in one respect     *)

SampleSeconds == {0, 2, 59}
SampleFractions == {0, 4, 5, 994, 995, 999}

SampleTimecodes ==
    {Timecode(h, m, s, ms) : h \in SampleHours, m \in {0, 59},
                             s \in SampleSeconds, ms \in SampleFractions}

NearTimecodes(tc) ==
    { tc,
      SubSeq(tc, 1, 8),            \* no fractional part
      tc \o <<"x">>,               \* a character after the timecode
      Tail(tc),                    \* a one-digit hour
      SubSeq(tc, 4, 12),           \* two fields
      <<"x">> \o Tail(tc),         \* a non-numeric hour
      SubSeq(tc, 1, 6) \o <<"x">> \o SubSeq(tc, 8, 12) }   \* a non-numeric second

ParseTexts == UNION {NearTimecodes(tc) : tc \in SampleTimecodes}

sessionVars == <<running, quitPending, inputFile, sidecar, sidecarOf, transcript,
                 loading, loadingMsg, quitting, errorMsg, transcriptItems, statuses,
                 items, index, tickPending, extracting, transcribing, compiles,
                 previews, msg>>

sessionIdle ==
    /\ running = FALSE
    /\ quitPending = FALSE
    /\ inputFile = FirstInput
    /\ sidecar = FALSE
    /\ sidecarOf = NoFile
    /\ transcript = <<>>
    /\ loading = FALSE
    /\ loadingMsg = ""
    /\ quitting = FALSE
    /\ errorMsg = <<>>
    /\ transcriptItems = <<>>
    /\ statuses = <<>>
    /\ items = <<>>
    /\ index = 0
    /\ tickPending = FALSE
    /\ extracting = FALSE
    /\ transcribing = FALSE
    /\ compiles = <<>>
    /\ previews = EmptyBag
    /\ msg = NoMsg

InitTimecodes ==
    /\ sessionIdle
    /\ ts \in ParseTexts
    /\ secs = 0
    /\ res = <<>>
    /\ proc = ProcIdle

ApplyParse ==
    /\ res = <<>>
    /\ res' = <<parseTimeToSeconds(ts)>>
    /\ UNCHANGED <<ts, secs, proc>>
    /\ UNCHANGED sessionVars

(* the text whose seconds were read is rendered by formatTimestamp *)
ApplyFormat ==
    /\ Len(res) = 1
    /\ res[1].ok
    /\ res' = Append(res, formatTimestamp(ts))
    /\ UNCHANGED <<ts, secs, proc>>
    /\ UNCHANGED sessionVars

NextTimecodes == ApplyParse \/ ApplyFormat

SpecTimecodes == InitTimecodes /\ [][NextTimecodes]_vars

-----------------------------------------------------------------------------
Parsed == Len(res) >= 1

(* an integer, ':', an integer, ':' and a decimal number lead the text *)
LeadsWithThreeNumbers(t) ==
    \E i, j \in 1..Len(t) :
        /\ 1 < i /\ i + 1 < j /\ j < Len(t)
        /\ t[i] = ":" /\ t[j] = ":"
        /\ \A p \in 1..(i - 1) : IsDigit(t[p])
        /\ \A p \in (i + 1)..(j - 1) : IsDigit(t[p])
        /\ \/ IsDigit(t[j + 1])
           \/ t[j + 1] = "." /\ j + 1 < Len(t) /\ IsDigit(t[j + 2])

-----------------------------------------------------------------------------
Formatted == Len(res) = 2

Min(a, b) == IF a < b THEN a ELSE b

(* MM:SS.XX of a timecode, computed from its numbers: the hundredths are   *)
(* the milliseconds divided by ten, one more when the last digit is 5 or   *)
(* above, 99 at most                                                       *)
ShortForm(tc) ==
    LET ms == TimecodeMillis(tc) % 1000
        hundredths == IF ms % 10 >= 5 THEN Min((ms \div 10) + 1, 99) ELSE ms \div 10
    IN SubSeq(tc, 4, 8) \o <<".">> \o ZeroPad(Itoa(hundredths), 2)

-----------------------------------------------------------------------------
(* a step that starts an extraction, a transcription or a compile command *)
Dispatches ==
    \/ extracting' /\ ~extracting
    \/ transcribing' /\ ~transcribing
    \/ Cardinality({i \in 1..Len(compiles') : compiles'[i].phase = "planning"})
          > Cardinality({i \in 1..Len(compiles) : compiles[i].phase = "planning"})

FailureReported == errorMsg # <<>>

(* C24: the step that reports a failure (extraction, transcription,        *)
(* transcript file write, compile) starts no command, and once a failure   *)
(* was reported a command is started only by the step that handles a 'c'   *)
(* key: nothing is retried by the program itself.                          *)
C24_NoAutomaticRetry ==
    [][/\ msg' = Msg("errorMsg") => ~Dispatches
       /\ (FailureReported /\ Dispatches) => msg' = CompileKey]_vars

(* a compile requested again after ffmpeg failed *)
C24_Witness ==
    /\ errorMsg = ErrFfmpeg
    /\ msg = CompileKey
    /\ loading
    /\ Len(compiles) = 1
    /\ compiles[1].phase = "planning"

-----------------------------------------------------------------------------
PreviewSteps == {PreviewKey} \cup {RunResult(r) : r \in RunResults}

(* C25: the step that handles 'p' and the step in which the previewer's    *)
(* run returns (mpv ended with 0, ended with an error, or could not be     *)
(* started) leave statuses, errorMsg, loading, the cursor and every        *)
(* selected flag as they were: a previewer failure shows nowhere.          *)
C25_PreviewLeavesSessionAlone ==
    [][msg' \in PreviewSteps
          => UNCHANGED <<statuses, errorMsg, loading, loadingMsg, quitting, index, items,
                         transcriptItems, compiles>>]_vars

(* mpv could not be started for a preview of a selected segment *)
C25_Witness ==
    /\ msg = RunResult("executable file not found")
    /\ previews = EmptyBag
    /\ Interactive
    /\ errorMsg = <<>>
    /\ Len(statuses) = 1
    /\ Len(items) = 1
    /\ items[1].selected

-----------------------------------------------------------------------------
(* main(): the command line, the validation of the input file, the API     *)
(* key, the transcript file, and the run of the session, which is taken    *)
(* here as far as the transcription request                                *)

(* strings.TrimSpace *)
RECURSIVE TrimLeft(_)
TrimLeft(s) == IF s # <<>> /\ Head(s) \in {" ", "\t", "\r"} THEN TrimLeft(Tail(s)) ELSE s

RECURSIVE TrimRight(_)
TrimRight(s) == IF s # <<>> /\ s[Len(s)] \in {" ", "\t", "\r"}
                THEN TrimRight(SubSeq(s, 1, Len(s) - 1)) ELSE s

TrimSpace(s) == TrimRight(TrimLeft(s))

CmdFiles ==
    {[dir |-> "Movies", base |-> "clip", ext |-> ".mp4"],
     [dir |-> ".", base |-> "clip", ext |-> ".MKV"],
     [dir |-> ".", base |-> "notes", ext |-> ".txt"]}

(* the argument "help", as a path *)
HelpArg == [dir |-> ".", base |-> "help", ext |-> ""]

ArgLists == {<<>>, <<HelpArg>>, <<FirstInput, FirstInput>>} \cup {<<f>> : f \in CmdFiles}

Langs == {"auto", "es"}
Prompts == {"", "names of the speakers"}

(* strings.ToLower on the extensions used here *)
ToLower(ext) == IF ext = ".MKV" THEN ".mkv" ELSE ext

validExtensions == {".mp4", ".avi", ".mov", ".mkv", ".m4v"}

EnvKey == <<"s", "k", "-", "e">>
StoredKey == <<"s", "k", "-", "s">>
TypedKey == <<"s", "k", "-", "t">>

(* what keyring.Get, term.ReadPassword and keyring.Set can return *)
KeyringGets ==
    {[err |-> "", key |-> StoredKey],
     [err |-> "", key |-> <<>>],
     [err |-> "secret not found in keyring", key |-> <<>>],
     [err |-> "failed to unlock collection", key |-> <<>>]}

PasswordReads ==
    {[err |-> "", text |-> TypedKey \o <<" ">>],
     [err |-> "", text |-> <<" ">>],
     [err |-> "", text |-> <<>>],
     [err |-> "inappropriate ioctl for device", text |-> <<>>]}

KeyringSets == {"", "failed to unlock collection"}

NoRequest == [method |-> "none"]

(* the request transcribeWithOpenAI builds *)
TranscriptionRequest(audioFile, apiKey) ==
    [method |-> "POST",
     url |-> "https://api.openai.com/v1/audio/transcriptions",
     authorization |-> <<"Bearer ">> \o apiKey,
     fields |-> [file |-> audioFile, model |-> "whisper-1", response_format |-> "vtt"]]

Exit(p, code, cause) == [p EXCEPT !.pc = "exited", !.exit = code, !.cause = cause]

InitStartup ==
    /\ sessionIdle
    /\ helperIdle
    /\ \E h, v \in BOOLEAN, a \in ArgLists, l \in Langs, pr \in Prompts, e \in {<<>>, EnvKey} :
          proc = [pc |-> "flag.Parse", help |-> h, version |-> v, args |-> a,
                  lang |-> l, prompt |-> pr, env |-> e, typed |-> <<>>,
                  sidecarFound |-> FALSE, request |-> NoRequest,
                  exit |-> "none", cause |-> ""]

startupFrame == UNCHANGED sessionVars /\ UNCHANGED <<ts, secs, res>>

(* flag.Parse() and the checks of help, version and the argument count *)
ParseFlags ==
    /\ proc.pc = "flag.Parse"
    /\ proc' = IF proc.help THEN Exit(proc, 0, "help")
               ELSE IF proc.version THEN Exit(proc, 0, "version")
               ELSE IF Len(proc.args) # 1 THEN Exit(proc, 0, "usage")
               ELSE IF proc.args[1] = HelpArg THEN Exit(proc, 0, "help")
               ELSE [proc EXCEPT !.pc = "os.Stat"]
    /\ startupFrame

(* os.Stat(inputFile) and the extension check *)
ValidateInput(exists) ==
    /\ proc.pc = "os.Stat"
    /\ proc' = IF ~exists THEN Exit(proc, 1, "input file does not exist")
               ELSE IF ToLower(proc.args[1].ext) \notin validExtensions
               THEN Exit(proc, 1, "extension not recognized")
               ELSE [proc EXCEPT !.pc = "keyring.Get"]
    /\ startupFrame

(* keyring.Get and os.Getenv("OPENAI_API_KEY") *)
KeyringGet(r) ==
    /\ proc.pc = "keyring.Get"
    /\ proc' = IF r.err # "" /\ r.err # "secret not found in keyring"
               THEN Exit(proc, 0, "credential store read error")
               ELSE LET env == IF r.key # <<>> THEN r.key ELSE proc.env
                    IN [proc EXCEPT !.env = env,
                                    !.pc = IF env = <<>> THEN "term.ReadPassword"
                                           ELSE "vttFile"]
    /\ startupFrame

(* a prompt that goes on with the key it read even when it is empty *)
ReadPasswordKeepsEmpty(r) ==
    /\ proc.pc = "term.ReadPassword"
    /\ proc' = IF r.err # "" THEN Exit(proc, 0, "terminal read error")
               ELSE [proc EXCEPT !.typed = TrimSpace(r.text), !.pc = "keyring.Set"]
    /\ startupFrame

(* term.ReadPassword, asked for when OPENAI_API_KEY is empty *)
ReadPassword(r) ==
    /\ proc.pc = "term.ReadPassword"
    /\ proc' = IF r.err # "" THEN Exit(proc, 0, "terminal read error")
               ELSE IF TrimSpace(r.text) = <<>> THEN Exit(proc, 1, "empty credential")
               ELSE [proc EXCEPT !.typed = TrimSpace(r.text), !.pc = "keyring.Set"]
    /\ startupFrame

(* keyring.Set of the key that was entered, then os.Setenv *)
KeyringSet(err) ==
    /\ proc.pc = "keyring.Set"
    /\ proc' = IF err # "" THEN Exit(proc, 0, "credential store write error")
               ELSE [proc EXCEPT !.env = proc.typed, !.pc = "vttFile"]
    /\ startupFrame

SidecarStates == {"absent", "readable", "unreadable"}

(* os.Stat(vttFile) and os.ReadFile(vttFile); then tea.NewProgram and Run *)
CheckSidecar(st) ==
    /\ proc.pc = "vttFile"
    /\ proc' = IF st = "unreadable" THEN Exit(proc, 1, "sidecar unreadable")
               ELSE [proc EXCEPT !.sidecarFound = (st = "readable"), !.pc = "p.Run"]
    /\ startupFrame

(* the request of a run: its audio file and the OPENAI_API_KEY it set *)
RequestOf(p) == TranscriptionRequest(<<p.args[1].base, ".mp3">>, p.env)

(* inside the session without a transcript file: the audio was extracted   *)
(* and transcribeWithOpenAI sends its request; with an empty               *)
(* OPENAI_API_KEY it returns an error instead                              *)
Transcribe ==
    /\ proc.pc = "p.Run"
    /\ ~proc.sidecarFound
    /\ proc.request = NoRequest
    /\ proc.env # <<>>
    /\ proc' = [proc EXCEPT !.request = RequestOf(proc)]
    /\ startupFrame

(* p.Run() returns, with or without an error, and main returns *)
RunReturns(err) ==
    /\ proc.pc = "p.Run"
    /\ proc' = Exit(proc, 0, IF err THEN "Error running program" ELSE "finished")
    /\ startupFrame

NextStartup ==
    \/ ParseFlags
    \/ \E exists \in BOOLEAN : ValidateInput(exists)
    \/ \E r \in KeyringGets : KeyringGet(r)
    \/ \E r \in PasswordReads : ReadPassword(r)
    \/ \E err \in KeyringSets : KeyringSet(err)
    \/ \E st \in SidecarStates : CheckSidecar(st)
    \/ Transcribe
    \/ \E err \in BOOLEAN : RunReturns(err)

SpecStartup == InitStartup /\ [][NextStartup]_vars

-----------------------------------------------------------------------------
Exited == proc.pc = "exited"

StartupFailures ==
    {"input file does not exist", "extension not recognized",
     "credential store read error", "credential store write error",
     "terminal read error", "empty credential", "sidecar unreadable"}

(* C26: the process exits with 0 on help, version and after a finished     *)
(* session, and with 1 on every validation or I/O failure at startup       *)
(* (input file missing, extension not recognized, credential store read    *)
(* or write error, terminal read error, empty credential, transcript file  *)
(* unreadable).                                                            *)
C26_ExitCodes ==
    Exited =>
        /\ proc.cause \in {"help", "version", "finished"} => proc.exit = 0
        /\ proc.cause \in StartupFailures => proc.exit = 1

(* the three failures that end in a plain return of main *)
C26_ReturnsExitZero ==
    Exited /\ proc.cause \in {"credential store read error", "credential store write error",
                              "terminal read error"}
        => proc.exit = 0


SessionStarted ==
    proc.pc = "p.Run" \/ (Exited /\ proc.cause \in {"finished", "Error running program"})

(* C27: the interactive session, and any transcription call, starts only   *)
(* with a non-empty API credential in OPENAI_API_KEY, and the request      *)
(* carries that credential; a run that found no credential and was given   *)
(* none has terminated without a session and without a request.            *)
C27_CredentialBeforeSession ==
    /\ SessionStarted => proc.env # <<>>
    /\ proc.request # NoRequest =>
          /\ SessionStarted
          /\ proc.request.authorization = <<"Bearer ">> \o proc.env
    /\ Exited /\ proc.env = <<>> => ~SessionStarted /\ proc.request = NoRequest

C27_Witness ==
    /\ proc.request # NoRequest
    /\ proc.env = TypedKey
    /\ proc.typed = TypedKey

(* a run that was given only blanks at the prompt ends before the session *)
C27_BlankEntryEnds == Exited /\ proc.cause = "empty credential" /\ proc.env = <<>>


(* C28: the values of --lang and --prompt are passed on to the             *)
(* transcription request: the request carries them, and a run that         *)
(* differs only in --lang, or only in --prompt, issues a different request.*)
C28_OptionsReachRequest ==
    proc.request # NoRequest =>
        /\ "language" \in DOMAIN proc.request.fields
        /\ "prompt" \in DOMAIN proc.request.fields
        /\ \A l \in Langs \ {proc.lang} :
              RequestOf([proc EXCEPT !.lang = l]) # proc.request
        /\ \A pr \in Prompts \ {proc.prompt} :
              RequestOf([proc EXCEPT !.prompt = pr]) # proc.request

(* what the request is made of: the audio file, the model, the format *)
C28_RequestIgnoresOptions ==
    proc.request # NoRequest =>
        /\ DOMAIN proc.request.fields = {"file", "model", "response_format"}
        /\ \A l \in Langs, pr \in Prompts :
              RequestOf([proc EXCEPT !.lang = l, !.prompt = pr]) = proc.request

-----------------------------------------------------------------------------
PipelineErrors == {ErrExtract, ErrTranscribe, ErrWriteVtt}

HasStatus(line) == \E n \in DOMAIN statuses : statuses[n] = line

PipelineFailed == ~CachedStart /\ \E e \in PipelineErrors : HasStatus(e)

(* the order of the steps, as conditions on every step of a run *)
PipelineStepOrder ==
    /\ (transcribing' /\ ~transcribing)
          => extracting /\ msg' = Msg("audioExtractedMsg")
    /\ ~(extracting' /\ ~extracting)
    /\ (sidecar' # sidecar \/ sidecarOf' # sidecarOf)
          => /\ transcribing /\ msg' = Msg("transcriptionDoneMsg")
             /\ sidecar' /\ sidecarOf' = inputFile
    /\ transcriptItems' # transcriptItems
          => sidecar' /\ msg' = Msg("transcriptionDoneMsg")
    /\ (msg' = Msg("errorMsg") /\ (extracting \/ transcribing))
          => /\ ~extracting' /\ ~transcribing'
             /\ sidecar' = sidecar
             /\ transcriptItems' = transcriptItems /\ items' = items

(* after a failure of the pipeline nothing of it runs and nothing is held *)
FailedPipelineStops ==
    PipelineFailed =>
        /\ ~extracting /\ ~transcribing
        /\ ~sidecar
        /\ transcriptItems = <<>> /\ items = <<>>
        /\ ~HasStatus(<<"Transcription finished and saved locally.">>)

(* C29, as stated: without a transcript file at startup the transcription  *)
(* is dispatched only after the extraction succeeded, the file is written  *)
(* only from a successful transcription, the session becomes Interactive   *)
(* only after the file was written, and after a failure no later step is   *)
(* dispatched and no transcript is shown.                                  *)
C29_InteractiveOnlyAfterSidecar ==
    /\ [][PipelineStepOrder]_vars
    /\ [](~CachedStart /\ Interactive => sidecar /\ sidecarOf = inputFile)
    /\ []FailedPipelineStops

(* C29, amended: the same order of steps; the session comes to hold and    *)
(* show a transcript only after the file was written; a failed step        *)
(* also ends Loading (the session is then Interactive over an empty list,  *)
(* showing the error), with no later step dispatched and no transcript.    *)
C29_TranscriptOnlyAfterSidecar ==
    /\ [][PipelineStepOrder]_vars
    /\ [](~CachedStart /\ (transcriptItems # <<>> \/ items # <<>>
                           \/ (Interactive /\ ~PipelineFailed))
            => /\ sidecar /\ sidecarOf = inputFile
               /\ HasStatus(<<"Audio extracted from ffmpeg.">>)
               /\ HasStatus(<<"Transcription finished and saved locally.">>))
    /\ []FailedPipelineStops
    /\ [](PipelineFailed /\ ~quitting => Interactive /\ errorMsg \in PipelineErrors)

C29_Witness ==
    /\ ~CachedStart
    /\ Interactive
    /\ sidecar
    /\ transcriptItems = transcript /\ transcript # <<>>
    /\ statuses = <<(<<"Audio extracted from ffmpeg.">>),
                    (<<"Transcription finished and saved locally.">>)>>

(* a run whose transcript could not be written *)
C29_WitnessFailed ==
    /\ PipelineFailed
    /\ Interactive
    /\ statuses = <<(<<"Audio extracted from ffmpeg.">>), ErrWriteVtt>>

-----------------------------------------------------------------------------
(* parseVTT on the text of a transcript *)

LF == "\n"
CR == "\r"

HasPrefix(s, prefix) == Len(s) >= Len(prefix) /\ SubSeq(s, 1, Len(prefix)) = prefix

WebVTT == <<"W", "E", "B", "V", "T", "T">>

Arrow == <<" ", "-", "-", ">", " ">>

(* a cue pattern that checks the separators but not the digits *)
timeStampRegexAnyChars(line) ==
    IF /\ Len(line) >= 29
       /\ line[3] = ":" /\ line[6] = ":" /\ line[9] = "."
       /\ SubSeq(line, 13, 17) = Arrow
       /\ line[20] = ":" /\ line[23] = ":" /\ line[26] = "."
    THEN <<SubSeq(line, 1, 29), SubSeq(line, 1, 12), SubSeq(line, 18, 29)>>
    ELSE <<>>

(* timeStampRegex: ^(\d{2}:\d{2}:\d{2}\.\d{3}) --> (\d{2}:\d{2}:\d{2}\.\d{3}) *)
timeStampRegex(line) ==
    IF /\ Len(line) >= 29
       /\ ExactTimecode(SubSeq(line, 1, 12))
       /\ SubSeq(line, 13, 17) = Arrow
       /\ ExactTimecode(SubSeq(line, 18, 29))
    THEN <<SubSeq(line, 1, 29), SubSeq(line, 1, 12), SubSeq(line, 18, 29)>>
    ELSE <<>>

(* the loop of parseVTT over the lines that are left *)
RECURSIVE parseLines(_, _, _, _)
parseLines(lines, currentStartTime, currentEndTime, tItems) ==
    IF lines = <<>> THEN tItems
    ELSE LET line == TrimSpace(Head(lines))
             matches == timeStampRegex(line)
         IN IF matches # <<>>
            THEN parseLines(Tail(lines), matches[2], matches[3], tItems)
            ELSE IF HasPrefix(line, WebVTT) \/ line = <<>>
            THEN parseLines(Tail(lines), currentStartTime, currentEndTime, tItems)
            ELSE IF line # <<>> /\ currentStartTime # <<>>
            THEN parseLines(Tail(lines), <<>>, <<>>,
                            Append(tItems,
                                   [StartTime |-> currentStartTime,
                                    EndTime |-> currentEndTime,
                                    Text |-> line]))
            ELSE parseLines(Tail(lines), currentStartTime, currentEndTime, tItems)

parseVTT(vttContent) == parseLines(Split(vttContent, <<LF>>), <<>>, <<>>, <<>>)

(* Transcript texts of the shape the transcription service returns:        *)
(* an optional WEBVTT header, then blocks of a cue line and a text line,   *)
(* separated by blank lines                                                *)

MaxBlocks == 2

CueTexts ==
    {<<"h", "i">>,
     <<"o", "k", " ", "s", "o">>,
     <<" ", "h", "i">>,
     <<"W", "E", "B", "V", "T", "T", " ", "i", "s">>}

CueRanges ==
    {[start |-> SampleSegments[1].StartTime, end |-> SampleSegments[1].EndTime],
     [start |-> SampleSegments[3].StartTime, end |-> SampleSegments[3].EndTime]}

Blocks == {[start |-> r.start, end |-> r.end, text |-> t] : r \in CueRanges, t \in CueTexts}

BlockLists == UNION {[1..n -> Blocks] : n \in 0..MaxBlocks}

VttInputs ==
    [header : BOOLEAN, eol : {<<LF>>, <<CR, LF>>}, final : BOOLEAN, blocks : BlockLists]

RECURSIVE JoinLines(_, _)
JoinLines(lines, eol) ==
    IF lines = <<>> THEN <<>>
    ELSE IF Len(lines) = 1 THEN lines[1]
    ELSE lines[1] \o eol \o JoinLines(Tail(lines), eol)

RECURSIVE BlockLines(_)
BlockLines(blocks) ==
    IF blocks = <<>> THEN <<>>
    ELSE <<blocks[1].start \o Arrow \o blocks[1].end, blocks[1].text>>
         \o (IF Len(blocks) > 1 THEN <<(<<>>)>> ELSE <<>>)
         \o BlockLines(Tail(blocks))

(* the text of the input in: its lines joined by its line ending *)
VttContent(in) ==
    JoinLines((IF in.header THEN <<WebVTT, <<>>>> ELSE <<>>) \o BlockLines(in.blocks), in.eol)
        \o (IF in.final THEN in.eol ELSE <<>>)

InitParseVTT ==
    /\ sessionIdle
    /\ ts \in VttInputs
    /\ secs = 0
    /\ res = <<>>
    /\ proc = ProcIdle

ApplyParseVTT ==
    /\ res = <<>>
    /\ res' = <<parseVTT(VttContent(ts))>>
    /\ UNCHANGED <<ts, secs, proc>>
    /\ UNCHANGED sessionVars

NextParseVTT == ApplyParseVTT

SpecParseVTT == InitParseVTT /\ [][NextParseVTT]_vars

-----------------------------------------------------------------------------
ParsedVTT == res # <<>>

(* C30: for a text of n blank-line separated blocks, each a timecode-range *)
(* line followed by one text line, with or without the WEBVTT header, the  *)
(* parser yields exactly n segments in the order of the blocks, each with  *)
(* its block's start, end and text, and every segment's text is non-empty. *)
C30_OneSegmentPerBlock ==
    ParsedVTT =>
        /\ Len(res[1]) = Len(ts.blocks)
        /\ \A k \in 1..Len(res[1]) :
              /\ res[1][k].StartTime = ts.blocks[k].start
              /\ res[1][k].EndTime = ts.blocks[k].end
              /\ res[1][k].Text = ts.blocks[k].text
              /\ res[1][k].Text # <<>>

(* what the parser yields: the blocks whose text does not begin with       *)
(* WEBVTT, in order, the text without the blanks around it                 *)
KeptBlocks(blocks) == SelectSeq(blocks, LAMBDA b : ~HasPrefix(TrimSpace(b.text), WebVTT))

C30_HeaderLikeTextsDropped ==
    ParsedVTT =>
        LET kept == KeptBlocks(ts.blocks)
        IN /\ Len(res[1]) = Len(kept)
           /\ \A k \in 1..Len(kept) :
                 /\ res[1][k].StartTime = kept[k].start
                 /\ res[1][k].EndTime = kept[k].end
                 /\ res[1][k].Text = TrimSpace(kept[k].text)
                 /\ res[1][k].Text # <<>>

(* a block whose text begins with WEBVTT is lost between two that are kept *)
C30_LostBlock ==
    /\ ParsedVTT
    /\ Len(ts.blocks) = 2
    /\ HasPrefix(ts.blocks[1].text, WebVTT)
    /\ Len(res[1]) = 1
    /\ res[1][1].Text = ts.blocks[2].text

-----------------------------------------------------------------------------
(* the commands that have not reported back *)
Outstanding ==
    (IF extracting THEN 1 ELSE 0) + (IF transcribing THEN 1 ELSE 0) + Len(compiles)

CompletionMsgs ==
    {Msg(t) : t \in {"audioExtractedMsg", "transcriptionDoneMsg",
                     "videoCompilationDoneMsg", "errorMsg"}}

(* C31: while loading is true a navigation, toggle, preview or compile     *)
(* key changes neither the cursor nor a selected flag nor anything else of *)
(* the session and dispatches nothing; a quit key is still accepted; and   *)
(* a command is outstanding whose completion message, when handled, ends   *)
(* that command.                                                           *)
C31_LoadingIgnoresIntents ==
    /\ [][(loading /\ msg' \in IntentKeys) => UNCHANGED allButMsg]_vars
    /\ [][(loading /\ msg'.type = "KeyMsg" /\ msg'.key \in QuitKeys)
            => quitting' /\ quitPending']_vars
    /\ [](loading => Outstanding = 1)
    /\ [][(loading /\ msg' \in CompletionMsgs) => Outstanding' < Outstanding
                                                  \/ (extracting /\ transcribing')]_vars

(* a toggle key was handled while a compile was pending *)
C31_Witness ==
    /\ loading
    /\ IsToggleKey(msg)
    /\ Len(compiles) = 1
    /\ AnySelected

-----------------------------------------------------------------------------
CompileRequested == msg' = CompileKey /\ Len(compiles') > Len(compiles)

(* C32: the spans handed to ffmpeg for a compile request are those of the  *)
(* segments selected when 'c' was handled: the request needs a selection   *)
(* and leaves it alone, no step changes the items while a compile is       *)
(* outstanding, and the plan made meanwhile is the one of that selection;  *)
(* this holds for a request made after a failure as for the first.         *)
C32_SpansOfSelectionAtRequest ==
    /\ [][CompileRequested => AnySelected /\ items' = items /\ compiles = <<>>]_vars
    /\ [][compiles # <<>> => /\ items' = items
                             /\ transcriptItems' = transcriptItems
                             /\ inputFile' = inputFile]_vars
    /\ [](\A i \in 1..Len(compiles) :
             Planned(i) => /\ compiles[i].plan.filter = ExpectedSpans
                           /\ compiles[i].plan = CompilePlan(inputFile, items))

(* a compile failed, the selection was extended, the second request is     *)
(* planned with both segments                                              *)
C32_Witness ==
    /\ HasStatus(ErrFfmpeg)
    /\ Len(items) = 2 /\ items[1].selected /\ items[2].selected
    /\ IsToggleKey(msg) = FALSE
    /\ \E i \in 1..Len(compiles) : Planned(i) /\ Len(compiles[i].plan.filter) = 2

-----------------------------------------------------------------------------
(* the two timecodes recovered from the display string of item k *)
Recovered(k) == Split(items[k].timestamp, Sep)

-----------------------------------------------------------------------------
(* parseVTT on arbitrary lines, followed by the planner's collection *)

MaxLines == 3

SampleLines ==
    {(* cue lines the pattern matches *)
     Timecode(0, 0, 1, 0) \o Arrow \o Timecode(0, 0, 2, 0),
     Timecode(99, 99, 99, 999) \o Arrow \o Timecode(0, 0, 58, 500) \o <<" ", "l", ":", "5">>,
     <<" ">> \o Timecode(0, 0, 55, 0) \o Arrow \o Timecode(0, 0, 58, 500) \o <<CR>>,
     (* lines close to a cue line *)
     <<"0", "0", ":", "0", "0", ":", "0", "1", ",", "0", "0", "0">> \o Arrow
        \o <<"0", "0", ":", "0", "0", ":", "0", "2", ",", "0", "0", "0">>,
     Timecode(0, 0, 1, 0) \o Arrow
        \o <<"0", "0", ":", "0", "a", ":", "0", "2", ".", "0", "0", "0">>,
     (* text, header, blank *)
     <<"h", "i">>,
     <<"a", " ", "-", " ", "b">>,
     WebVTT,
     <<>>}

LineLists == UNION {[1..n -> SampleLines] : n \in 0..MaxLines}

InitParseLines ==
    /\ sessionIdle
    /\ ts \in LineLists
    /\ secs = 0
    /\ res = <<>>
    /\ proc = ProcIdle

(* parseVTT on the text made of the lines *)
ApplyParseLines ==
    /\ res = <<>>
    /\ res' = <<parseVTT(JoinLines(ts, <<LF>>))>>
    /\ UNCHANGED <<ts, secs, proc>>
    /\ UNCHANGED sessionVars

SelectAll(its) == [k \in 1..Len(its) |-> [its[k] EXCEPT !.selected = TRUE]]

(* every segment selected, then the collection of compileVideoSegments *)
ApplyCollect ==
    /\ Len(res) = 1
    /\ res' = Append(res, CollectSegments(SelectAll(ListItems(res[1]))))
    /\ UNCHANGED <<ts, secs, proc>>
    /\ UNCHANGED sessionVars

NextParseLines == ApplyParseLines \/ ApplyCollect

SpecParseLines == InitParseLines /\ [][NextParseLines]_vars

-----------------------------------------------------------------------------
WithSelection(its, S) == [k \in 1..Len(its) |-> [its[k] EXCEPT !.selected = (k \in S)]]

(* C34: for any transcript text every segment the parser produces has a    *)
(* start and an end the planner's parseTimeToSeconds accepts, and its      *)
(* display string splits into exactly these two; so the collection over    *)
(* any selection of the segments returns no timestamp error and one span   *)
(* for every selected segment.                                             *)
C34_ParsedSegmentsPlan ==
    /\ Len(res) >= 1 =>
          \A k \in 1..Len(res[1]) :
             /\ parseTimeToSeconds(res[1][k].StartTime).ok
             /\ parseTimeToSeconds(res[1][k].EndTime).ok
             /\ Len(Split(ListItems(res[1])[k].timestamp, Sep)) = 2
    /\ Len(res) >= 1 =>
          \A S \in SUBSET (1..Len(res[1])) :
             LET c == CollectSegments(WithSelection(ListItems(res[1]), S))
             IN /\ c.err = <<>>
                /\ Len(c.segs) = Cardinality(S)
    /\ Len(res) = 2 =>
          /\ res[2].err = <<>>
          /\ Len(res[2].segs) = Len(res[1])
          /\ \A k \in 1..Len(res[1]) :
                /\ res[2].segs[k].start = TimecodeMillis(res[1][k].StartTime)
                /\ res[2].segs[k].end = TimecodeMillis(res[1][k].EndTime)

(* the cue 99:99:99.999 with a setting after it, then a text with " - " *)
C34_Witness ==
    /\ Len(res) = 2
    /\ Len(res[1]) = 1
    /\ res[1][1].StartTime = Timecode(99, 99, 99, 999)
    /\ res[1][1].Text = <<"a", " ", "-", " ", "b">>
    /\ res[2].segs = <<[start |-> TimecodeMillis(Timecode(99, 99, 99, 999)), end |-> 58500]>>

-----------------------------------------------------------------------------
(* The preview range of the 'p' case on its own: every transcript of up to *)
(* MaxSegments cues over the sample times that has start < end in every    *)
(* cue and non-decreasing starts, every cursor position                    *)

SampleTimes ==
    {Timecode(0, 0, 1, 0), Timecode(0, 0, 2, 0), Timecode(0, 0, 50, 0),
     Timecode(0, 0, 55, 0), Timecode(0, 0, 59, 0), Timecode(0, 0, 59, 500),
     Timecode(0, 1, 0, 0), Timecode(0, 1, 59, 999)}

SampleCues ==
    {c \in [StartTime : SampleTimes, EndTime : SampleTimes, Text : {"a"}] :
        TimecodeMillis(c.StartTime) < TimecodeMillis(c.EndTime)}

OrderedTranscripts ==
    {t \in UNION {[1..n -> SampleCues] : n \in 1..MaxSegments} :
        \A k \in 1..(Len(t) - 1) :
            TimecodeMillis(t[k].StartTime) <= TimecodeMillis(t[k + 1].StartTime)}

InitPreview ==
    /\ sessionIdle
    /\ \E t \in OrderedTranscripts : ts = ListItems(t)
    /\ secs \in 0..(MaxSegments - 1)
    /\ secs < Len(ts)
    /\ res = <<>>
    /\ proc = ProcIdle

(* case "p" with the list ts and the cursor at secs *)
ApplyPreview ==
    /\ res = <<>>
    /\ res' = <<PreviewOf(inputFile, ts, secs)>>
    /\ UNCHANGED <<ts, secs, proc>>
    /\ UNCHANGED sessionVars

NextPreview == ApplyPreview

SpecPreview == InitPreview /\ [][NextPreview]_vars

-----------------------------------------------------------------------------
Previewed == res # <<>>

(* C35: for every segment sequence with start < end, non-decreasing starts *)
(* and seconds fields in 00..59, and every cursor position, the range of   *)
(* the preview is non-empty: its end is later than its start.              *)
C35_PreviewRangeNonEmpty ==
    Previewed => TimecodeMillis(res[1].endTime) > TimecodeMillis(res[1].startTime)

OnLast == secs + 1 = Len(ts)

StartOf(k) == Split(ts[k].timestamp, Sep)[1]

(* where the range is empty: on the last segment when it starts in second  *)
(* 59, and on a segment whose successor starts at the same time            *)
C35_EmptyRanges ==
    Previewed =>
        (TimecodeMillis(res[1].endTime) <= TimecodeMillis(res[1].startTime)
            <=> \/ OnLast /\ SubSeq(StartOf(secs + 1), 7, 8) = <<"5", "9">>
                \/ ~OnLast /\ StartOf(secs + 2) = StartOf(secs + 1))

(* 'p' on a last segment 00:00:59.500 - 00:01:00.000 *)
C35_EmptyAt59 ==
    /\ Previewed
    /\ OnLast
    /\ res[1].startTime = Timecode(0, 0, 59, 500)
    /\ res[1].endTime = Timecode(0, 0, 59, 500)

-----------------------------------------------------------------------------
(* The list with its filter: keys other than q, ctrl+c, enter, space, p    *)
(* and c reach list.Update, so "/" opens the filter, letters extend the    *)
(* term and tab accepts it. ts holds the filter's state and term. Index()  *)
(* counts among the visible items, Items() is the whole sequence, and the  *)
(* delegate highlights the visible item at Index().                        *)

Unfiltered == [state |-> "unfiltered", term |-> ""]

(* letters that reach the filter's input: c, p and q are taken by Update *)
FilterLetters == {"a", "b"}

(* the positions in Items() of the items the list shows *)
VisibleItems(its, f) ==
    SelectSeq([k \in 1..Len(its) |-> k],
              LAMBDA k : f.state = "unfiltered" \/ f.term = "" \/ its[k].title = f.term)

InitFiltered ==
    /\ running = TRUE
    /\ quitPending = FALSE
    /\ inputFile = FirstInput
    /\ sidecar = TRUE
    /\ transcript \in {t \in BoundedTranscripts : t # <<>>}
    /\ sidecarOf = inputFile
    /\ loading = FALSE
    /\ loadingMsg = "Extracting audio with ffmpeg..."
    /\ quitting = FALSE
    /\ errorMsg = <<>>
    /\ transcriptItems = transcript
    /\ statuses = <<(<<"Transcript already exists locally">>)>>
    /\ items = ListItems(transcript)
    /\ index = 0
    /\ tickPending = FALSE
    /\ extracting = FALSE
    /\ transcribing = FALSE
    /\ compiles = <<>>
    /\ previews = EmptyBag
    /\ msg = NoMsg
    /\ ts = Unfiltered
    /\ secs = 0
    /\ res = <<>>
    /\ proc = ProcIdle

listFrame ==
    UNCHANGED <<running, quitPending, loading, loadingMsg, quitting, errorMsg,
                transcriptItems, statuses, items, tickPending, extracting,
                transcribing, compiles, previews, inputFile, sidecar, sidecarOf,
                transcript, secs, res, proc>>

(* "/" handed to the list: the filter input opens, the cursor goes to 0 *)
KeyFilter ==
    /\ running /\ ~loading
    /\ ts.state = "unfiltered"
    /\ ts' = [state |-> "filtering", term |-> ""]
    /\ index' = 0
    /\ msg' = KeyMsg("/")
    /\ listFrame

(* a letter handed to the list while the filter input is open *)
KeyFilterLetter(ch) ==
    /\ running /\ ~loading
    /\ ts.state = "filtering" /\ ts.term = ""
    /\ ts' = [ts EXCEPT !.term = ch]
    /\ index' = 0
    /\ msg' = KeyMsg(ch)
    /\ listFrame

(* tab while the filter input is open: the filter is applied, or dropped   *)
(* when nothing matches                                                    *)
KeyFilterAccept ==
    /\ running /\ ~loading
    /\ ts.state = "filtering"
    /\ ts' = IF VisibleItems(items, ts) = <<>> \/ ts.term = "" THEN Unfiltered
             ELSE [ts EXCEPT !.state = "applied"]
    /\ index' = 0
    /\ msg' = KeyMsg("tab")
    /\ listFrame

(* esc: the filter is cleared *)
KeyFilterClear ==
    /\ running /\ ~loading
    /\ ts.state # "unfiltered"
    /\ ts' = Unfiltered
    /\ index' = 0
    /\ msg' = KeyMsg("esc")
    /\ listFrame

(* up and down move the cursor among the visible items *)
KeyNavigateVisible(k) ==
    /\ running /\ ~loading
    /\ ts.state # "filtering"
    /\ index' = IF k = "up" THEN CursorUp(index)
                ELSE CursorDown(index, Len(VisibleItems(items, ts)))
    /\ msg' = KeyMsg(k)
    /\ UNCHANGED ts
    /\ listFrame

NextFiltered ==
    \/ KeyFilter
    \/ \E ch \in FilterLetters : KeyFilterLetter(ch)
    \/ KeyFilterAccept
    \/ KeyFilterClear
    \/ \E k \in NavKeys : KeyNavigateVisible(k)
    \/ \E k \in ToggleKeys : KeyToggle(k)
    \/ KeyPreview
    \/ \E p \in BagToSet(previews), r \in RunResults : PreviewExit(p, r)

SpecFiltered == InitFiltered /\ [][NextFiltered]_vars

-----------------------------------------------------------------------------
(* the position in Items(), 0-based, of the item the list highlights *)
Highlighted == VisibleItems(items, ts)[index + 1] - 1

SomethingHighlighted == index + 1 \in 1..Len(VisibleItems(items, ts))

C36_UnfilteredActsOnHighlighted ==
    /\ [][(IsToggleKey(msg') /\ ~loading /\ SomethingHighlighted /\ ts.state = "unfiltered")
            => items' = ToggleAt(items, Highlighted)]_vars
    /\ [][(msg' = PreviewKey /\ ~loading /\ SomethingHighlighted /\ ts.state = "unfiltered")
            => previews' = previews (+) SetToBag({PreviewOf(inputFile, items, Highlighted)})]_vars

(* the filter "b" shows the second segment only; the first one got selected *)
C36_WrongSegmentSelected ==
    /\ ts = [state |-> "applied", term |-> "b"]
    /\ Len(items) = 2
    /\ Highlighted = 1
    /\ items[1].selected /\ ~items[2].selected
    /\ IsToggleKey(msg)

-----------------------------------------------------------------------------
(* model.View: which of its texts is shown, and the lines it is made of *)
View ==
    IF quitting THEN [kind |-> "statuses", lines |-> statuses]
    ELSE IF errorMsg # <<>>
    THEN [kind |-> "error", lines |-> Append(statuses, <<"Press 'q' to quit">>)]
    ELSE IF loading THEN [kind |-> "loading", lines |-> Append(statuses, <<loadingMsg>>)]
    ELSE IF Len(transcriptItems) = 0
    THEN [kind |-> "empty", lines |-> Append(statuses, <<"No transcript items found">>)]
    ELSE [kind |-> "checklist", lines |-> statuses]

(* C37: errorMsg, once non-empty, is never cleared; from then on every     *)
(* state that is not Done shows the error view (the statuses and "Press    *)
(* 'q' to quit"), never the checklist or the loading line, while toggle,   *)
(* preview and compile keys are handled as before.                         *)
C37_ErrorViewSticks ==
    /\ [][errorMsg # <<>> => errorMsg' # <<>>]_vars
    /\ [](errorMsg # <<>> /\ ~Done
            => View = [kind |-> "error", lines |-> Append(statuses, <<"Press 'q' to quit">>)])
    /\ [][(errorMsg # <<>> /\ CanAct /\ ValidIndex /\ IsToggleKey(msg'))
            => items' = ToggleAt(items, index)]_vars
    /\ [][(errorMsg # <<>> /\ CanAct /\ ValidIndex /\ msg' = PreviewKey)
            => previews' = previews (+) SetToBag({PreviewOf(inputFile, items, index)})]_vars
    /\ [][(errorMsg # <<>> /\ CanAct /\ AnySelected /\ msg' = CompileKey)
            => loading' /\ compiles' = Append(compiles, NewCompile(inputFile))]_vars

(* a second compile is running behind the error view of the first *)
C37_Witness ==
    /\ errorMsg = ErrFfmpeg
    /\ ~Done
    /\ loading
    /\ Len(compiles) = 1
    /\ View.kind = "error"

-----------------------------------------------------------------------------
(* Runs in which no quit key is pressed and every command that was         *)
(* dispatched returns: the extraction, the transcription, the planning of  *)
(* a compile and its ffmpeg each report back                               *)

NextNoQuit ==
    \/ \E k \in ToggleKeys : KeyToggle(k)
    \/ KeyPreview
    \/ KeyCompile
    \/ \E k \in NavKeys : KeyNavigate(k)
    \/ AudioExtracted
    \/ TranscriptionDone
    \/ ExtractFailed
    \/ \E err \in {ErrTranscribe, ErrWriteVtt} : TranscribeFailed(err)
    \/ \E i \in 1..Len(compiles) : CompileStart(i)
    \/ \E i \in 1..Len(compiles) : CompileDone(i)
    \/ \E i \in 1..Len(compiles) : CompileFailed(i)
    \/ SpinnerTick
    \/ DeliverQuit
    \/ \E p \in BagToSet(previews), r \in RunResults : PreviewExit(p, r)

ExtractionReturns == AudioExtracted \/ ExtractFailed

TranscriptionReturns ==
    TranscriptionDone \/ \E err \in {ErrTranscribe, ErrWriteVtt} : TranscribeFailed(err)

PlanningReturns == \E i \in 1..Len(compiles) : CompileStart(i)

CompileReturns == \E i \in 1..Len(compiles) : CompileDone(i) \/ CompileFailed(i)

(* the condition under which a planning step can be taken *)
PlanningPending == running /\ \E i \in 1..Len(compiles) : compiles[i].phase = "planning"

(* weak fairness of the planning step, written out with PlanningPending as *)
(* its enabling condition                                                  *)
PlanningFair == []<>(~PlanningPending) \/ []<><<PlanningReturns>>_vars

SpecReturning ==
    /\ Init
    /\ [][NextNoQuit]_vars
    /\ WF_vars(ExtractionReturns)
    /\ WF_vars(TranscriptionReturns)
    /\ PlanningFair
    /\ WF_vars(CompileReturns)

(* C38: when every dispatched command returns and no quit key is pressed,  *)
(* every state with loading = true is followed by one with loading = false *)
(* or by Done; whenever loading is true exactly one extraction,            *)
(* transcription or compile is outstanding.                                *)
C38_LoadingEnds ==
    /\ loading ~> (~loading \/ Done)
    /\ [](loading => Outstanding = 1)

(* the transcription reported back and ended the loading *)
C38_Witness ==
    /\ msg = Msg("transcriptionDoneMsg")
    /\ ~loading
    /\ Outstanding = 0
    /\ ~Done

-----------------------------------------------------------------------------
(* The run that receives a transcription and a later run that finds the    *)
(* transcript file the first one wrote: the response text goes into the    *)
(* file as bytes and comes back from it as a string                        *)

Charset ==
    <<" ", ",", "-", ".", "0", "1", "2", "3", "4", "5", "6", "7", "8", "9", ":", ">",
      "B", "E", "T", "V", "W", "a", "b", "h", "i", "k", "l", "o", "s", LF, CR>>

CodeOf(c) == CHOOSE p \in 1..Len(Charset) : Charset[p] = c

(* []byte(s) and string(b) *)
Bytes(s) == [k \in 1..Len(s) |-> CodeOf(s[k])]
String(b) == [k \in 1..Len(b) |-> Charset[b[k]]]

(* a file that holds the response up to its first blank line only *)
WriteFileFirstBlock(vttContent) ==
    LET cut == IndexOf(vttContent, <<LF, LF>>)
    IN Bytes(IF cut = 0 THEN vttContent ELSE SubSeq(vttContent, 1, cut - 1))

(* os.WriteFile(vttFile, []byte(vttContent), 0644): the bytes in the file *)
WriteFile(vttContent) == Bytes(vttContent)

ResponseTexts ==
    {VttContent(in) : in \in VttInputs} \cup {JoinLines(l, <<LF>>) : l \in LineLists}

InitSidecar ==
    /\ sessionIdle
    /\ ts \in ResponseTexts
    /\ secs = 0
    /\ res = <<>>
    /\ proc = ProcIdle

(* transcribeAudioCmd and the transcriptionDoneMsg case: the items shown   *)
(* and the file written                                                    *)
FirstRun ==
    /\ res = <<>>
    /\ res' = <<[shown |-> ListItems(parseVTT(ts)), file |-> WriteFile(ts)]>>
    /\ UNCHANGED <<ts, secs, proc>>
    /\ UNCHANGED sessionVars

(* main() of a later run: os.ReadFile(vttFile), parseVTT, the items shown *)
LaterRun ==
    /\ Len(res) = 1
    /\ res' = Append(res, [shown |-> ListItems(parseVTT(String(res[1].file))),
                           file |-> res[1].file])
    /\ UNCHANGED <<ts, secs, proc>>
    /\ UNCHANGED sessionVars

NextSidecar == FirstRun \/ LaterRun

SpecSidecar == InitSidecar /\ [][NextSidecar]_vars

-----------------------------------------------------------------------------
=============================================================================
